---- MODULE Spec2Model ----
(***************************************************************************)
(* A model of github.com/frk/isvalid: the analysis of a validator struct   *)
(* (internal/analysis), the rule-tag parsers, and the generator of the     *)
(* Validate method (internal/generator) together with the run-time         *)
(* behaviour of the statements it emits.                                   *)
(*                                                                         *)
(* Go strings are sequences of one-character strings; Go indices are       *)
(* 0-based and are kept 0-based in the operators below.                    *)
(***************************************************************************)
EXTENDS Integers, Sequences, FiniteSets, TLC

VARIABLES
    \* ---- analysis (Config.Analyze, analyzeValidatorStruct) ----
    pc,             \* position in Analyze: "fields", "typecheck", "context", "merge", "done", "panic", "off"
    selector,       \* the selector argument of the running analyzeStructFields (indices into structFields)
    structFields,   \* every *StructField created and kept so far, in creation order
    keys,           \* analysis.keys
    SelectorMap,    \* Info.SelectorMap: key -> selector
    needsContext,   \* analysis.needsContext: <<>> (nil) or <<[field, rule]>>
    ContextOption,  \* ValidatorStruct.ContextOption: <<>> (nil) or <<name>>
    ErrorHandler,   \* ValidatorStruct.ErrorHandler: <<>> (nil) or <<[Name, IsAggregator]>>
    err,            \* the diagnostic returned by Analyze, "none" while there is none
    fkey,           \* f.Key of the field the last loop iteration worked on
    validator,      \* the *ValidatorStruct returned by Analyze: <<>> (nil) or <<record>>
    RuleSpecMap,    \* Info.RuleSpecMap: <<>> (not populated) or <<rule name -> RuleSpec>>
    \* ---- parseRuleTag ----
    tag,            \* the value of the `is` tag handed to parseRuleTag
    parsed,         \* "none" before the call, then the *TagNode or Panic
    \* ---- Generate and the emitted Validate method ----
    file,           \* the generator's file: init statements, imports, declarations
    gpc,            \* "generate", then "written"; "running", "returned", "panicked" for a call of Validate
    target,         \* <<>> or <<the ValidatorStruct of the method built last>>
    ctx,            \* the value of the context option field during the call
    ip,             \* the index of the next statement of the running method body
    reported,       \* the number of errors handed to the error aggregator
    result,         \* what the call returned: "none", "nil", "out", "err", "hookerr"
    \* ---- Config and AddRuleFunc ----
    cfgRules,       \* Config.ruleSpecMap: rule name -> custom RuleFunc
    added,          \* the last call of AddRuleFunc: its arguments and the error it returned
    resolved,       \* the last rule spec lookup of typeCheckRuleSpec: the name and what was found
    \* ---- single calls of the functions of the analyzer and the generator ----
    fin,            \* the arguments of the call
    fout            \* whether the call was made, and what it returned

anVars == <<pc, selector, structFields, keys, SelectorMap, needsContext,
            ContextOption, ErrorHandler, err, fkey, validator, RuleSpecMap>>
tagVars == <<tag, parsed>>
genVars == <<file, gpc, target, ctx, ip, reported, result>>
extVars == <<cfgRules, added, resolved, fin, fout>>
vars == <<anVars, tagVars, genVars, extVars>>

-----------------------------------------------------------------------------
(* Bounds of the model.                                                    *)

\* Most fields (root and nested together) one analysed struct has.
MaxFields == 3
\* Deepest nesting of struct-typed fields.
MaxDepth == 1
\* Longest `is` tag value handed to parseRuleTag.
MaxTagLen == 3

-----------------------------------------------------------------------------
(* Go strings.                                                             *)

At(s, i) == s[i + 1]
\* s[a:b] for 0 <= a <= b <= len(s)
Sub(s, a, b) == SubSeq(s, a + 1, b)
From(s, a) == SubSeq(s, a + 1, Len(s))

RECURSIVE IndexFrom(_, _, _)
IndexFrom(s, c, i) ==
    IF i >= Len(s) THEN -1
    ELSE IF At(s, i) = c THEN i
    ELSE IndexFrom(s, c, i + 1)

\* strings.IndexByte
IndexByte(s, c) == IndexFrom(s, c, 0)

Digit == {"0", "1", "2", "3", "4", "5", "6", "7", "8", "9"}
Digit19 == Digit \ {"0"}
DigitChar(d) == At(<<"0", "1", "2", "3", "4", "5", "6", "7", "8", "9">>, d)

\* strconv.FormatUint(n, 10)
RECURSIVE FormatUint(_)
FormatUint(n) ==
    IF n < 10 THEN <<DigitChar(n)>>
    ELSE Append(FormatUint(n \div 10), DigitChar(n % 10))

AllDigits(s) == \A i \in 1..Len(s) : s[i] \in Digit

\* [1-9][0-9]*
IsPosInt(s) == Len(s) >= 1 /\ s[1] \in Digit19 /\ AllDigits(s)

\* rxInt: ^(?:0|-?[1-9][0-9]*)$
rxInt(s) ==
    \/ s = <<"0">>
    \/ IsPosInt(s)
    \/ Len(s) >= 2 /\ s[1] = "-" /\ IsPosInt(Tail(s))

\* rxFloat: ^(?:(?:-?0|[1-9][0-9]*)?\.[0-9]+)$
rxFloat(s) ==
    LET d == IndexByte(s, ".")
        pre == Sub(s, 0, d)
        post == From(s, d + 1)
    IN  /\ d > -1
        /\ Len(post) >= 1 /\ AllDigits(post)
        /\ \/ pre = <<>>
           \/ pre = <<"0">>
           \/ pre = <<"-", "0">>
           \/ IsPosInt(pre)

\* rxBool: ^(?:false|true)$
rxBool(s) == s = <<"t", "r", "u", "e">> \/ s = <<"f", "a", "l", "s", "e">>

-----------------------------------------------------------------------------
(* Rules as parsed from one element of the `is` tag (analysis.go).         *)
(* A nil pointer is the empty sequence, a non-nil one a one-element        *)
(* sequence.                                                               *)

ArgTypeUnknown == "unknown"
ArgTypeBool == "bool"
ArgTypeInt == "int"
ArgTypeFloat == "float"
ArgTypeString == "string"
ArgTypeField == "field"

NewRule == [Name |-> <<>>, Args |-> <<>>, Context |-> <<>>, SetKey |-> <<>>,
            Key |-> <<>>, Elem |-> <<>>]
EmptyArg == [Type |-> ArgTypeUnknown, Value |-> <<>>]

\* the `default:` branch of the switch on opt[0]
literalArg(opt) ==
    LET n == Len(opt) IN
    IF n > 1 /\ At(opt, 0) = "\"" /\ At(opt, n - 1) = "\""
    THEN [Type |-> ArgTypeString, Value |-> Sub(opt, 1, n - 1)]
    ELSE [Type |-> IF rxInt(opt) THEN ArgTypeInt
                   ELSE IF rxFloat(opt) THEN ArgTypeFloat
                   ELSE IF rxBool(opt) THEN ArgTypeBool
                   ELSE ArgTypeString,
          Value |-> opt]

\* one pass of the option loop's body after opt has been cut off
applyOpt(r, opt) ==
    IF Len(opt) > 0
    THEN CASE At(opt, 0) = "#" -> [r EXCEPT !.SetKey = From(opt, 1)]
           [] At(opt, 0) = "@" -> [r EXCEPT !.Context = From(opt, 1)]
           [] At(opt, 0) = "&" ->
                [r EXCEPT !.Args = Append(@, [Type |-> ArgTypeField, Value |-> From(opt, 1)])]
           [] OTHER -> [r EXCEPT !.Args = Append(@, literalArg(opt))]
    ELSE [r EXCEPT !.Args = Append(@, EmptyArg)]

\* the loop `for len(opts) > 0` and the trailing appendEmpty
RECURSIVE parseOpts(_, _, _)
parseOpts(opts, r, appendEmpty) ==
    IF Len(opts) = 0
    THEN IF appendEmpty THEN [r EXCEPT !.Args = Append(@, EmptyArg)] ELSE r
    ELSE LET i == IndexByte(opts, ":")
             ae == IF i > -1 THEN (i = Len(opts) - 1) ELSE appendEmpty
             opt == IF i > -1 THEN Sub(opts, 0, i) ELSE opts
             rest == IF i > -1 THEN From(opts, i + 1) ELSE <<>>
         IN  parseOpts(rest, applyOpt(r, opt), ae)

RECURSIVE parseIsTagElem(_)
parseIsTagElem(str) ==
    IF Len(str) > 0 /\ At(str, 0) = "[" /\ IndexByte(str, "]") > -1
    THEN LET i == IndexByte(str, "]")
             str1 == Sub(str, 1, i)
             str2 == From(str, i + 1)
         IN  [NewRule EXCEPT
                !.Key = IF Len(str1) > 0 THEN <<parseIsTagElem(str1)>> ELSE <<>>,
                !.Elem = IF Len(str2) > 0 THEN <<parseIsTagElem(str2)>> ELSE <<>>]
    ELSE LET i == IndexByte(str, ":")
             opts == IF i > -1 THEN From(str, i + 1) ELSE <<>>
             name == IF i > -1 THEN Sub(str, 0, i) ELSE str
         IN  parseOpts(opts, [NewRule EXCEPT !.Name = name], FALSE)

-----------------------------------------------------------------------------
(* Types (types.go).                                                       *)

IntegerKinds == {"int", "int8", "int16", "int32", "int64"}
UnsignedKinds == {"uint", "uint8", "uint16", "uint32", "uint64", "uintptr"}
FloatKinds == {"float32", "float64"}
NumericKinds == IntegerKinds \cup UnsignedKinds \cup FloatKinds
BasicKinds == {"bool", "complex64", "complex128", "string", "unsafepointer"} \cup NumericKinds

\* the int and the uint kinds together
integerOrUnsigned(k) == k \in IntegerKinds \cup UnsignedKinds

IsBasic(k) == k \in BasicKinds
IsNumeric(k) == k \in NumericKinds
IsInteger(k) == k \in IntegerKinds
IsUnsigned(k) == k \in UnsignedKinds
IsFloat(k) == k \in FloatKinds

\* a Type; Key and Elem are nil (<<>>) or point to a Type (<<t>>)
T(kind) == [Kind |-> kind, Name |-> "", PkgPath |-> "", IsEmptyInterface |-> FALSE,
            IsIsValider |-> FALSE, ArrayLen |-> 0, Key |-> <<>>, Elem |-> <<>>]
EmptyInterfaceT == [T("interface") EXCEPT !.IsEmptyInterface = TRUE]
SliceT(e) == [T("slice") EXCEPT !.Elem = <<e>>]
PtrT(e) == [T("ptr") EXCEPT !.Elem = <<e>>]
MapT(k, e) == [T("map") EXCEPT !.Key = <<k>>, !.Elem = <<e>>]

RECURSIVE PtrBase(_)
PtrBase(t) == IF t.Kind = "ptr" THEN PtrBase(t.Elem[1]) ELSE t

\* an equality that looks at the name of the receiver only
RECURSIVE equalsReceiverName(_, _)
equalsReceiverName(t, u) ==
    IF t.Kind # u.Kind THEN FALSE
    ELSE IF t.Name # "" THEN t.Name = u.Name /\ t.PkgPath = u.PkgPath
    ELSE IF IsBasic(t.Kind) THEN t.Kind = u.Kind
    ELSE CASE t.Kind = "array" ->
                 t.ArrayLen = u.ArrayLen /\ equalsReceiverName(t.Elem[1], u.Elem[1])
           [] t.Kind = "map" -> equalsReceiverName(t.Key[1], u.Key[1])
                                /\ equalsReceiverName(t.Elem[1], u.Elem[1])
           [] t.Kind \in {"slice", "ptr"} -> equalsReceiverName(t.Elem[1], u.Elem[1])
           [] t.Kind = "interface" -> t.IsEmptyInterface /\ u.IsEmptyInterface
           [] OTHER -> FALSE

RECURSIVE Equals(_, _)
Equals(t, u) ==
    IF t.Kind # u.Kind THEN FALSE
    ELSE IF t.Name # "" \/ u.Name # "" THEN t.Name = u.Name /\ t.PkgPath = u.PkgPath
    ELSE IF IsBasic(t.Kind) THEN t.Kind = u.Kind
    ELSE CASE t.Kind = "array" -> t.ArrayLen = u.ArrayLen /\ Equals(t.Elem[1], u.Elem[1])
           [] t.Kind = "map" -> Equals(t.Key[1], u.Key[1]) /\ Equals(t.Elem[1], u.Elem[1])
           [] t.Kind \in {"slice", "ptr"} -> Equals(t.Elem[1], u.Elem[1])
           [] t.Kind = "interface" -> t.IsEmptyInterface /\ u.IsEmptyInterface
           [] OTHER -> FALSE

\* the element test of the string <-> []byte / []rune cases
byteOrRuneSlice(t) ==
    t.Kind = "slice" /\ t.Elem[1].Name = "" /\ t.Elem[1].Kind \in {"uint8", "int32"}

canConvert(dst, src) ==
    \/ Equals(src, dst)
    \/ dst.IsEmptyInterface
    \/ dst.Kind = src.Kind /\ IsBasic(dst.Kind)
    \/ IsNumeric(dst.Kind) /\ IsNumeric(src.Kind)
    \/ dst.Kind = "string" /\ byteOrRuneSlice(src)
    \/ src.Kind = "string" /\ byteOrRuneSlice(dst)
    \/ /\ dst.Kind = src.Kind /\ ~IsBasic(dst.Kind)
       /\ CASE dst.Kind = "array" ->
                 dst.ArrayLen = src.ArrayLen /\ Equals(dst.Elem[1], src.Elem[1])
            [] dst.Kind = "map" ->
                 Equals(dst.Key[1], src.Key[1]) /\ Equals(dst.Elem[1], src.Elem[1])
            [] dst.Kind \in {"slice", "ptr"} -> Equals(dst.Elem[1], src.Elem[1])
            [] OTHER -> FALSE

-----------------------------------------------------------------------------
(* Diagnostics and rule specs.                                             *)

errEmptyValidator == "errEmptyValidator"
errRuleUnknown == "errRuleUnknown"
errFieldKeyUnknown == "errFieldKeyUnknown"
errFieldKeyConflict == "errFieldKeyConflict"
errErrorHandlerFieldConflict == "errErrorHandlerFieldConflict"
errContextOptionFieldConflict == "errContextOptionFieldConflict"
errContextOptionFieldType == "errContextOptionFieldType"
errContextOptionFieldRequired == "errContextOptionFieldRequired"
errTypeKind == "errTypeKind"
errRuleFuncRuleArgCount == "errRuleFuncRuleArgCount"
errRuleFuncFieldArgType == "errRuleFuncFieldArgType"
errRuleFuncRuleArgType == "errRuleFuncRuleArgType"

\* a run-time panic of the analyzer (index out of range), not a diagnostic
Panic == "panic"

RuleFuncBoolNone == "none"

errRuleNameUnavailable == "errRuleNameUnavailable"
errRuleFuncParamCount == "errRuleFuncParamCount"
errRuleFuncResultType == "errRuleFuncResultType"
errRuleEnumTypeUnnamed == "errRuleEnumTypeUnnamed"

\* a *types.Func: its name, package and signature
Func(name, params, results, variadic) ==
    [Name |-> name, PkgPath |-> "x", Params |-> params, Results |-> results,
     Variadic |-> variadic]

\* the RuleFunc that AddRuleFunc builds from ruleFunc
customRuleFunc(fn) ==
    [spec |-> "RuleFunc", FuncName |-> fn.Name, PkgPath |-> fn.PkgPath,
     ArgTypes |-> fn.Params, IsVariadic |-> fn.Variadic,
     BoolConn |-> RuleFuncBoolNone, iscustom |-> TRUE]

\* Config.ruleSpecMap after
\*   AddRuleFunc("e", func(v string) bool) and
\*   AddRuleFunc("p", func(v string, a string) bool)
ruleSpecMap ==
    (<<"e">> :> customRuleFunc(Func("E", <<T("string")>>, <<T("bool")>>, FALSE)))
    @@
    (<<"p">> :> customRuleFunc(Func("P", <<T("string"), T("string")>>, <<T("bool")>>, FALSE)))

\* the rules every Config knows: the IsValid method, the enum rule and one
\* function of the predicate registry, Email(v string) bool
defaultRuleSpecMap ==
    (<<"i", "s", "v", "a", "l", "i", "d">> :> [spec |-> "RuleIsValid", iscustom |-> FALSE])
    @@
    (<<"e", "n", "u", "m">> :> [spec |-> "RuleEnum", iscustom |-> FALSE])
    @@
    (<<"e", "m", "a", "i", "l">> :>
        [spec |-> "RuleFunc", FuncName |-> "Email", PkgPath |-> "github.com/frk/isvalid",
         ArgTypes |-> <<T("string")>>, IsVariadic |-> FALSE,
         BoolConn |-> RuleFuncBoolNone, iscustom |-> FALSE])

\* a lookup that asks the default rules first
lookupDefaultFirst(c, name) ==
    IF name \in DOMAIN defaultRuleSpecMap
    THEN [ok |-> TRUE, spec |-> <<defaultRuleSpecMap[name]>>]
    ELSE IF name \in DOMAIN c THEN [ok |-> TRUE, spec |-> <<c[name]>>]
    ELSE [ok |-> FALSE, spec |-> <<>>]

\* `spec, ok := a.conf.ruleSpecMap[name]; if !ok { spec, ok = defaultRuleSpecMap[name] }`
lookupRuleSpec(c, name) ==
    IF name \in DOMAIN c THEN [ok |-> TRUE, spec |-> <<c[name]>>]
    ELSE IF name \in DOMAIN defaultRuleSpecMap
         THEN [ok |-> TRUE, spec |-> <<defaultRuleSpecMap[name]>>]
    ELSE [ok |-> FALSE, spec |-> <<>>]

\* the two loops of Analyze that fill Info.RuleSpecMap
mergeRuleSpecMaps(c) ==
    [k \in DOMAIN defaultRuleSpecMap \cup DOMAIN c |->
        IF k \in DOMAIN c THEN c[k] ELSE defaultRuleSpecMap[k]]

RECURSIVE hasRuleSpec(_)
hasRuleSpec(r) ==
    IF r.Key # <<>> \/ r.Elem # <<>>
    THEN /\ (r.Key # <<>> => hasRuleSpec(r.Key[1]))
         /\ (r.Elem # <<>> => hasRuleSpec(r.Elem[1]))
    ELSE r.Name \in DOMAIN cfgRules \/ r.Name \in DOMAIN defaultRuleSpecMap

-----------------------------------------------------------------------------
(* Analysis of a validator struct (analysis.go).                           *)
(*                                                                         *)
(* structFields lists the StructField values in order of creation; a field *)
(* is referred to by its index.  An entry's sel is the selector of its     *)
(* parent, inFields tells whether the loop appended it to `fields` (the    *)
(* special root fields are not).  The fields of a struct typed field are   *)
(* the entries whose sel is that field's own selector.                     *)

none == "none"

ContextNames == {"context", "Context", "CONTEXT", "conText", "cOntext"}

Last(s) == s[Len(s)]

Children(fsel) ==
    LET idx == {i \in 1..Len(structFields) :
                    structFields[i].sel = fsel /\ structFields[i].inFields}
        RECURSIVE asc(_, _)
        asc(i, acc) == IF i > Len(structFields) THEN acc
                       ELSE asc(i + 1, IF i \in idx THEN Append(acc, i) ELSE acc)
    IN  asc(1, <<>>)

\* the test of an analysis that never finds a key in a.keys
NoKeyConflict(ks, key) == FALSE

\* the `_, ok := a.keys[f.Key]` test that follows makeFieldKey
KeyConflict(ks, key) == key \in DOMAIN ks

\* a Go map assignment m[k] = v
MapSet(m, k, v) == [x \in DOMAIN m \cup {k} |-> IF x = k THEN v ELSE m[x]]

\* a collision suffix that counts from 2
keySuffixNext(num) == <<"-">> \o FormatUint(num + 1)

\* the collision suffix appended to a key that is already present
keySuffix(num) == <<"-">> \o FormatUint(num)

makeFieldKey(ks, raw) ==
    IF raw \in DOMAIN ks
    THEN [key |-> raw \o keySuffix(ks[raw]), keys |-> MapSet(ks, raw, ks[raw] + 1)]
    ELSE [key |-> raw, keys |-> ks]

\* strings.TrimSpace, for the blank
RECURSIVE TrimSpace(_)
TrimSpace(str) ==
    IF Len(str) > 0 /\ str[1] = " " THEN TrimSpace(Tail(str))
    ELSE IF Len(str) > 0 /\ str[Len(str)] = " " THEN TrimSpace(SubSeq(str, 1, Len(str) - 1))
    ELSE str

\* the name of the rule that stands for the IsValid method
RuleNameIsValid == <<"i", "s", "v", "a", "l", "i", "d">>

\* the loops of analyzeRules over f.Tag["is"]
omitisvalid(is) ==
    \E i \in 1..Len(is) : TrimSpace(is[i]) = <<"-", "i", "s", "v", "a", "l", "i", "d">>

\* iv: the field's type is an IsValider and "-isvalid" was not given
RECURSIVE analyzeRulesLoop(_, _, _, _, _, _)
analyzeRulesLoop(is, iv, fidx, rules, nc, isvalid) ==
    IF is = <<>>
    THEN [err |-> none, needsContext |-> nc,
          Rules |-> IF isvalid THEN Append(rules, [NewRule EXCEPT !.Name = RuleNameIsValid])
                    ELSE rules]
    ELSE LET s == TrimSpace(Head(is)) IN
         IF s = <<"-", "i", "s", "v", "a", "l", "i", "d">>
         THEN analyzeRulesLoop(Tail(is), iv, fidx, rules, nc, isvalid)
         ELSE LET r0 == parseIsTagElem(s)
                  nc1 == IF Len(r0.Context) > 0 /\ nc = <<>>
                         THEN <<[field |-> fidx, rule |-> r0]>> ELSE nc
                  infer == r0.Name = <<>> /\ iv
                  r == IF infer THEN [r0 EXCEPT !.Name = RuleNameIsValid] ELSE r0
              IN  IF r0.Name = RuleNameIsValid \/ ~hasRuleSpec(r)
                  THEN [err |-> errRuleUnknown, needsContext |-> nc1, Rules |-> rules]
                  ELSE analyzeRulesLoop(Tail(is), iv, fidx, Append(rules, r), nc1,
                                        isvalid /\ ~infer)

analyzeRules(is, ftype, fidx, nc) ==
    LET iv == PtrBase(ftype).IsIsValider /\ ~omitisvalid(is) IN
    analyzeRulesLoop(is, iv, fidx, <<>>, nc, iv)

\* canConvertRuleArg: "yes", "no", or Panic when Last() is taken of the nil
\* selector that the map yields for a missing key
canConvertRuleArg(dst, src) ==
    IF src.Type = ArgTypeField
    THEN LET sel == IF src.Value \in DOMAIN SelectorMap THEN SelectorMap[src.Value]
                    ELSE <<>>
         IN  IF Len(sel) = 0 THEN Panic
             ELSE IF canConvert(dst, structFields[Last(sel)].Type) THEN "yes" ELSE "no"
    ELSE IF \/ dst.IsEmptyInterface \/ dst.Kind = "string"
            \/ src.Type = ArgTypeUnknown
            \/ dst.Kind = "bool" /\ src.Type = ArgTypeBool
            \/ IsFloat(dst.Kind) /\ src.Type \in {ArgTypeInt, ArgTypeFloat}
            \/ IsInteger(dst.Kind) /\ src.Type = ArgTypeInt
            \/ IsUnsigned(dst.Kind) /\ src.Type = ArgTypeInt /\ At(src.Value, 0) # "-"
            \/ src.Type = ArgTypeString /\ (dst.Kind = "string" \/ byteOrRuneSlice(dst))
         THEN "yes" ELSE "no"

\* `for i, fatyp := range fatypes { ra := r.Args[i] ... }`
RECURSIVE checkFixedArgs(_, _, _)
checkFixedArgs(fatypes, args, i) ==
    IF i >= Len(fatypes) THEN none
    ELSE IF i >= Len(args) THEN Panic
    ELSE LET c == canConvertRuleArg(At(fatypes, i), At(args, i)) IN
         IF c = Panic THEN Panic
         ELSE IF c = "no" THEN errRuleFuncRuleArgType
         ELSE checkFixedArgs(fatypes, args, i + 1)

\* `for _, ra := range args { canConvertRuleArg(a, fatyp, ra) }`
RECURSIVE checkRestArgs(_, _)
checkRestArgs(fatyp, args) ==
    IF args = <<>> THEN none
    ELSE LET c == canConvertRuleArg(fatyp, Head(args)) IN
         IF c = Panic THEN Panic
         ELSE IF c = "no" THEN errRuleFuncRuleArgType
         ELSE checkRestArgs(fatyp, Tail(args))

\* a count check that lets a rule with too many arguments pass
argCountAtLeast(r, rf) ==
    LET numreq == (Len(rf.ArgTypes) - 1) - (IF rf.IsVariadic THEN 1 ELSE 0)
        numarg == Len(r.Args)
    IN  IF rf.BoolConn # RuleFuncBoolNone THEN numarg < 1 ELSE numreq > numarg

\* the first `if ... else` of typeCheckRuleFunc: the rule's arguments do not
\* fit the function's parameters
argCountMismatch(r, rf) ==
    LET numreq == (Len(rf.ArgTypes) - 1) - (IF rf.IsVariadic THEN 1 ELSE 0)
        numarg == Len(r.Args)
    IN  IF rf.BoolConn # RuleFuncBoolNone THEN numarg < 1
        ELSE numreq > numarg \/ (numreq < numarg /\ ~rf.IsVariadic)

typeCheckRuleFunc(r, rf, t) ==
    LET badCount == argCountMismatch(r, rf)
        argType == IF rf.IsVariadic /\ Len(rf.ArgTypes) = 1
                   THEN rf.ArgTypes[1].Elem[1] ELSE rf.ArgTypes[1]
        fa0 == Tail(rf.ArgTypes)
        fatypes == IF rf.IsVariadic /\ Len(fa0) > 0 THEN SubSeq(fa0, 1, Len(fa0) - 1)
                   ELSE fa0
        fixed == checkFixedArgs(fatypes, r.Args, 0)
    IN  IF badCount THEN errRuleFuncRuleArgCount
        ELSE IF ~canConvert(argType, PtrBase(t)) THEN errRuleFuncFieldArgType
        ELSE IF fixed # none THEN fixed
        ELSE IF rf.IsVariadic
             THEN checkRestArgs(Last(rf.ArgTypes).Elem[1], From(r.Args, Len(fatypes)))
        ELSE IF rf.BoolConn # RuleFuncBoolNone
             THEN checkRestArgs(rf.ArgTypes[2], r.Args)
        ELSE none

\* the test of typeCheckRuleEnum on the type's name; the search for the
\* constants of the type is left out
typeCheckRuleEnum(t) ==
    IF PtrBase(t).Name = "" THEN errRuleEnumTypeUnnamed ELSE none

RECURSIVE typeCheckRuleSpec(_, _)
typeCheckRuleSpec(r, t0) ==
    IF r.Key # <<>> \/ r.Elem # <<>>
    THEN LET t == PtrBase(t0)
             k == IF r.Key = <<>> THEN none
                  ELSE IF t.Kind # "map" THEN errTypeKind
                  ELSE typeCheckRuleSpec(r.Key[1], t.Key[1])
         IN  IF k # none THEN k
             ELSE IF r.Elem = <<>> THEN none
             ELSE IF t.Kind \notin {"array", "slice", "map"} THEN errTypeKind
             ELSE typeCheckRuleSpec(r.Elem[1], t.Elem[1])
    ELSE LET l == lookupRuleSpec(cfgRules, r.Name) IN
         IF ~l.ok THEN errRuleUnknown
         ELSE CASE l.spec[1].spec = "RuleIsValid" -> none
                [] l.spec[1].spec = "RuleEnum" -> typeCheckRuleEnum(t0)
                [] l.spec[1].spec = "RuleFunc" -> typeCheckRuleFunc(r, l.spec[1], t0)

\* the check of the field references among a rule's own arguments
unknownFieldKey(r) ==
    \E i \in 1..Len(r.Args) :
        r.Args[i].Type = ArgTypeField /\ r.Args[i].Value \notin DOMAIN SelectorMap

RECURSIVE typeCheckFieldRules(_, _)
typeCheckFieldRules(rules, t) ==
    IF rules = <<>> THEN none
    ELSE IF unknownFieldKey(Head(rules)) THEN errFieldKeyUnknown
    ELSE LET e == typeCheckRuleSpec(Head(rules), t) IN
         IF e # none THEN e ELSE typeCheckFieldRules(Tail(rules), t)

RECURSIVE typeCheckRules(_)
RECURSIVE walk(_, _)

\* fsel is the selector of the field whose type is being walked
walk(typ0, fsel) ==
    LET typ == PtrBase(typ0) IN
    CASE typ.Kind = "struct" -> typeCheckRules(Children(fsel))
      [] typ.Kind \in {"array", "slice"} -> walk(typ.Elem[1], fsel)
      [] typ.Kind = "map" ->
           LET e == walk(typ.Key[1], fsel) IN
           IF e # none THEN e ELSE walk(typ.Elem[1], fsel)
      [] OTHER -> none

typeCheckRules(fields) ==
    IF fields = <<>> THEN none
    ELSE LET f == structFields[Head(fields)]
             e == typeCheckFieldRules(f.Rules, f.Type)
         IN  IF e # none THEN e
             ELSE LET w == walk(f.Type, Append(f.sel, Head(fields))) IN
                  IF w # none THEN w ELSE typeCheckRules(Tail(fields))

-----------------------------------------------------------------------------
(* The analyzer as a state machine.  One field of a struct is one          *)
(* iteration of the loop of analyzeStructFields; a struct typed field      *)
(* suspends its iteration while the loop runs over the nested struct.      *)

\* the position after a step of an analysis that carries on after an error
NextPcIgnoreErr(p, e) == p

\* `if err != nil { return nil, err }`: the position after a step that
\* yielded e, where p is the position when no error was yielded
NextPc(p, e) == IF e = Panic THEN "panic" ELSE IF e # none THEN "done" ELSE p

\* a new StructField for the declared field inp, under the current selector
newField(inp, key) ==
    [raw |-> inp.raw, Key |-> key, Name |-> inp.name, Type |-> inp.Type,
     implements |-> inp.implements, is |-> inp.is, Rules |-> <<>>,
     sel |-> selector, inFields |-> FALSE]

\* tag.First("is"): the first value of the `is` tag, "" when there is none
First(is) == IF Len(is) > 0 THEN is[1] ELSE <<>>

\* the check for untagged, "special" root fields, for a field whose rules
\* were analyzed without error
specialField(f) ==
    IF Len(First(f.is)) = 0 /\ Len(f.sel) = 0 /\ f.implements \in {"constructor", "aggregator"}
    THEN IF ErrorHandler # <<>>
         THEN [err |-> errErrorHandlerFieldConflict, eh |-> ErrorHandler,
               co |-> ContextOption, inFields |-> FALSE]
         ELSE [err |-> none, co |-> ContextOption, inFields |-> FALSE,
               eh |-> <<[Name |-> f.Name, IsAggregator |-> f.implements = "aggregator"]>>]
    ELSE IF Len(First(f.is)) = 0 /\ Len(f.sel) = 0 /\ f.Name \in ContextNames
    THEN IF ContextOption # <<>>
         THEN [err |-> errContextOptionFieldConflict, eh |-> ErrorHandler,
               co |-> ContextOption, inFields |-> FALSE]
         ELSE IF f.Type.Kind # "string"
         THEN [err |-> errContextOptionFieldType, eh |-> ErrorHandler,
               co |-> ContextOption, inFields |-> FALSE]
         ELSE [err |-> none, eh |-> ErrorHandler, inFields |-> FALSE,
               co |-> <<[Name |-> f.Name]>>]
    ELSE [err |-> none, eh |-> ErrorHandler, co |-> ContextOption, inFields |-> TRUE]

\* the part of an iteration that follows analyzeType: analyzeRules, the
\* special fields, and the append to `fields`; sf holds the field at index i
finishField(sf, i) ==
    LET f == sf[i]
        ar == analyzeRules(f.is, f.Type, i, needsContext)
        sp == specialField(f)
        e == IF ar.err # none THEN ar.err ELSE sp.err
    IN  /\ needsContext' = ar.needsContext
        /\ err' = e
        /\ pc' = NextPc(pc, e)
        /\ ErrorHandler' = IF ar.err # none THEN ErrorHandler ELSE sp.eh
        /\ ContextOption' = IF ar.err # none THEN ContextOption ELSE sp.co
        /\ structFields' = [sf EXCEPT ![i] = [f EXCEPT !.Rules = ar.Rules,
                                                       !.inFields = (e = none /\ sp.inFields)]]

\* the key conflict exit of an iteration
keyConflict(mk) ==
    /\ err' = errFieldKeyConflict
    /\ fkey' = mk.key
    /\ keys' = mk.keys
    /\ pc' = NextPc(pc, errFieldKeyConflict)
    /\ UNCHANGED <<selector, structFields, SelectorMap, needsContext, ContextOption,
                   ErrorHandler, validator, RuleSpecMap>>

\* one iteration for a field whose type holds no struct
AnalyzeField(inp) ==
    /\ pc = "fields"
    /\ Len(structFields) < MaxFields
    /\ PtrBase(inp.Type).Kind # "struct"
    /\ LET mk == makeFieldKey(keys, inp.raw)
           i == Len(structFields) + 1
       IN  IF KeyConflict(mk.keys, mk.key)
           THEN keyConflict(mk)
           ELSE /\ keys' = MapSet(mk.keys, mk.key, 1)
                /\ SelectorMap' = MapSet(SelectorMap, mk.key, Append(selector, i))
                /\ finishField(Append(structFields, newField(inp, mk.key)), i)
                /\ UNCHANGED <<selector, fkey, validator, RuleSpecMap>>
    /\ UNCHANGED <<tagVars, genVars, extVars>>

\* an iteration for a struct typed field, up to the nested loop
EnterStructField(inp) ==
    /\ pc = "fields"
    /\ Len(structFields) < MaxFields
    /\ Len(selector) < MaxDepth
    /\ PtrBase(inp.Type).Kind = "struct"
    /\ LET mk == makeFieldKey(keys, inp.raw)
           i == Len(structFields) + 1
       IN  IF KeyConflict(mk.keys, mk.key)
           THEN keyConflict(mk)
           ELSE /\ keys' = MapSet(mk.keys, mk.key, 1)
                /\ SelectorMap' = MapSet(SelectorMap, mk.key, Append(selector, i))
                /\ structFields' = Append(structFields, newField(inp, mk.key))
                /\ selector' = Append(selector, i)
                /\ UNCHANGED <<pc, needsContext, ContextOption, ErrorHandler, err, fkey,
                               validator, RuleSpecMap>>
    /\ UNCHANGED <<tagVars, genVars, extVars>>

\* the nested loop has run out of fields: the rest of the iteration of the
\* struct typed field
LeaveStructField ==
    /\ pc = "fields"
    /\ selector # <<>>
    /\ finishField(structFields, Last(selector))
    /\ selector' = SubSeq(selector, 1, Len(selector) - 1)
    /\ UNCHANGED <<keys, SelectorMap, fkey, validator, RuleSpecMap>>
    /\ UNCHANGED <<tagVars, genVars, extVars>>

\* the root loop has run out of fields
EndFields ==
    /\ pc = "fields"
    /\ selector = <<>>
    /\ LET e == IF Children(<<>>) = <<>> THEN errEmptyValidator ELSE none IN
       /\ err' = e
       /\ pc' = NextPc("typecheck", e)
    /\ UNCHANGED <<selector, structFields, keys, SelectorMap, needsContext, ContextOption,
                   ErrorHandler, fkey, validator, RuleSpecMap>>
    /\ UNCHANGED <<tagVars, genVars, extVars>>

\* 2. type-check all of the fields' rules
TypeCheckRules ==
    /\ pc = "typecheck"
    /\ LET e == typeCheckRules(Children(<<>>)) IN
       /\ err' = IF e = Panic THEN none ELSE e
       /\ pc' = NextPc("context", e)
    /\ UNCHANGED <<selector, structFields, keys, SelectorMap, needsContext, ContextOption,
                   ErrorHandler, fkey, validator, RuleSpecMap>>
    /\ UNCHANGED <<tagVars, genVars, extVars>>

\* 3. a rule with context requires a context option field
contextRequired(nc, co) == nc # <<>> /\ co = <<>>

ContextCheck ==
    /\ pc = "context"
    /\ LET e == IF contextRequired(needsContext, ContextOption)
                THEN errContextOptionFieldRequired ELSE none
       IN  /\ err' = e
           /\ pc' = NextPc("merge", e)
    /\ UNCHANGED <<selector, structFields, keys, SelectorMap, needsContext, ContextOption,
                   ErrorHandler, fkey, validator, RuleSpecMap>>
    /\ UNCHANGED <<tagVars, genVars, extVars>>

\* Analyze after analyzeValidatorStruct returned without error: the rule
\* spec maps are merged into Info and the validator struct is returned
MergeRuleSpecs ==
    /\ pc = "merge"
    /\ RuleSpecMap' = <<mergeRuleSpecMaps(cfgRules)>>
    /\ validator' = <<[Fields |-> Children(<<>>), ErrorHandler |-> ErrorHandler,
                       ContextOption |-> ContextOption]>>
    /\ pc' = "done"
    /\ UNCHANGED <<selector, structFields, keys, SelectorMap, needsContext, ContextOption,
                   ErrorHandler, err, fkey>>
    /\ UNCHANGED <<tagVars, genVars, extVars>>

-----------------------------------------------------------------------------
(* The declared fields the analyzer is run on.                             *)

fld(raw, name, type, implements, is) ==
    [raw |-> raw, name |-> name, Type |-> type, implements |-> implements, is |-> is]

\* raw is the result of a.fieldKey for the field's selector
FieldInputs ==
    {
      \* F string / F struct{...}, no `is` tag, for three raw keys
      fld(<<"A">>, "F", T("string"), "none", <<>>),
      fld(<<"A", "-", "1">>, "F", T("string"), "none", <<>>),
      fld(<<"B">>, "F", T("string"), "none", <<>>),
      fld(<<"A">>, "F", T("struct"), "none", <<>>),
      \* F string `is:"e"`
      fld(<<"E">>, "F", T("string"), "none", << <<"e">> >>),
      \* F string `is:"e:@c"`
      fld(<<"E">>, "F", T("string"), "none", << <<"e", ":", "@", "c">> >>),
      \* F string `is:"p:&B"`
      fld(<<"P">>, "F", T("string"), "none", << <<"p", ":", "&", "B">> >>),
      \* F map[string]string `is:"[e:@c]"`
      fld(<<"M">>, "F", MapT(T("string"), T("string")), "none",
          << <<"[", "e", ":", "@", "c", "]">> >>),
      \* F map[string]string `is:"[p:&B]"`
      fld(<<"M">>, "F", MapT(T("string"), T("string")), "none",
          << <<"[", "p", ":", "&", "B", "]">> >>),
      \* F string `is:"x"`, x is not a registered rule
      fld(<<"X">>, "F", T("string"), "none", << <<"x">> >>),
      \* Context string
      fld(<<"C">>, "Context", T("string"), "none", <<>>)
    }

emptyMap == [x \in {} |-> 0]

AnalysisInit ==
    /\ pc = "fields"
    /\ selector = <<>>
    /\ structFields = <<>>
    /\ keys = emptyMap
    /\ SelectorMap = emptyMap
    /\ needsContext = <<>>
    /\ ContextOption = <<>>
    /\ ErrorHandler = <<>>
    /\ err = none
    /\ fkey = <<>>
    /\ validator = <<>>
    /\ RuleSpecMap = <<>>

\* the result slot of a parseRuleTag call that was not made yet
NotCalled == [called |-> FALSE, panic |-> FALSE, tn |-> <<>>]

\* the zero value of the file that Generate starts from
NewFile == [init |-> <<>>, impset |-> <<>>, importErrors |-> FALSE, importFmt |-> FALSE,
            Decls |-> <<>>]

\* the slots of a call of AddRuleFunc and of a lookup that were not made yet
NoAdd == [name |-> <<>>, fn |-> <<>>, err |-> "nocall"]
NoLookup == [name |-> <<>>, ok |-> FALSE, spec |-> <<>>, called |-> FALSE]

\* the result slot of a single function call that was not made yet
NotApplied == [called |-> FALSE, v |-> <<>>]
Applied(v) == [called |-> TRUE, v |-> v]

\* no call of AddRuleFunc, no lookup and no single function call was made
ExtInit ==
    /\ cfgRules = ruleSpecMap
    /\ added = NoAdd
    /\ resolved = NoLookup
    /\ fin = <<>>
    /\ fout = NotApplied

\* the generator before Generate is called
GeneratorInit ==
    /\ file = NewFile
    /\ gpc = "generate"
    /\ target = <<>>
    /\ ctx = ""
    /\ ip = 1
    /\ reported = 0
    /\ result = "none"

Init_Analysis ==
    /\ AnalysisInit
    /\ GeneratorInit
    /\ ExtInit
    /\ tag = <<>>
    /\ parsed = NotCalled

Next_Analysis ==
    \/ \E inp \in FieldInputs : AnalyzeField(inp)
    \/ \E inp \in FieldInputs : EnterStructField(inp)
    \/ LeaveStructField
    \/ EndFields
    \/ TypeCheckRules
    \/ ContextCheck
    \/ MergeRuleSpecs

Spec_Analysis == Init_Analysis /\ [][Next_Analysis]_vars

-----------------------------------------------------------------------------
(* Properties of the analysis.                                             *)

Fields == 1..Len(structFields)

keyOf(rawk, n) == rawk \o <<"-">> \o FormatUint(n)

\* C2: the keys of the struct fields are pairwise distinct and the selector
\* map holds exactly one entry per field, which selects that field; this
\* holds in every state and so after a successful analysis, also when a raw
\* key looks like a generated one (K-1).  The field-key-conflict diagnostic
\* is raised only for a key that an earlier field already holds.
C2_KeysDistinct ==
    /\ \A i, j \in Fields : i # j => structFields[i].Key # structFields[j].Key
    /\ DOMAIN SelectorMap = {structFields[i].Key : i \in Fields}
    /\ \A i \in Fields : Last(SelectorMap[structFields[i].Key]) = i
    /\ (err = errFieldKeyConflict => \E i \in Fields : structFields[i].Key = fkey)

\* a successful analysis in which a field with raw key A was given the key
\* A-1 and another field came with the raw key A-1
C2_Witness ==
    /\ pc = "done" /\ validator # <<>>
    /\ \E i, j \in Fields :
         /\ structFields[i].raw = <<"A">> /\ structFields[i].Key = <<"A", "-", "1">>
         /\ structFields[j].raw = <<"A", "-", "1">>

\* C3 (as stated): a validator struct is only produced for rules with a
\* context clause, at the top level, in a key or elem sub-rule or on a
\* nested field, when a context option field exists.
RECURSIVE ruleHasContext(_)
ruleHasContext(r) ==
    \/ Len(r.Context) > 0
    \/ r.Key # <<>> /\ ruleHasContext(r.Key[1])
    \/ r.Elem # <<>> /\ ruleHasContext(r.Elem[1])

anyContextRule ==
    \E i \in Fields : \E k \in 1..Len(structFields[i].Rules) :
        ruleHasContext(structFields[i].Rules[k])

C3_ContextRequired ==
    (validator # <<>> /\ anyContextRule) => ContextOption # <<>>

\* C5 (as stated): a field reference to a key that is not in the selector
\* map, at any level of a rule, ends the analysis with the
\* unknown-field-key diagnostic; Last() is never taken of a missing selector.
RECURSIVE ruleHasUnknownRef(_)
ruleHasUnknownRef(r) ==
    \/ unknownFieldKey(r)
    \/ r.Key # <<>> /\ ruleHasUnknownRef(r.Key[1])
    \/ r.Elem # <<>> /\ ruleHasUnknownRef(r.Elem[1])

anyUnknownRef ==
    \E i \in Fields : \E k \in 1..Len(structFields[i].Rules) :
        structFields[i].inFields /\ ruleHasUnknownRef(structFields[i].Rules[k])

C5_UnknownFieldKey ==
    /\ pc # "panic"
    /\ (pc \in {"context", "merge"} => ~anyUnknownRef)

\* C6: once a diagnostic was raised the analysis is over: no validator
\* struct is returned, Info.RuleSpecMap stays unpopulated, and no step of
\* the analysis is taken any more.
C6_FailFast ==
    /\ [](err # none => (pc = "done" /\ validator = <<>> /\ RuleSpecMap = <<>>))
    /\ [][err # none => UNCHANGED anVars]_vars

\* a diagnostic was raised while more fields could still have been analyzed
C6_Witness ==
    /\ err = errRuleUnknown /\ pc = "done"
    /\ Len(structFields) = 1 /\ validator = <<>> /\ RuleSpecMap = <<>>

\* C10 (as stated): of the fields with the same raw key K the first keeps K
\* and the k-th later one gets K-k.
sameRawBefore(i) == Cardinality({j \in 1..(i - 1) : structFields[j].raw = structFields[i].raw})

holders(i) == {j \in 1..(i - 1) : structFields[j].Key = structFields[i].raw}

-----------------------------------------------------------------------------
(* parseRuleTag (the tag parser that yields a TagNode tree).               *)
(*                                                                         *)
(* The parser functions yield [panic, tn]: panic tells that a slice        *)
(* expression was out of range, tn points to the TagNode otherwise.        *)

OptionTypeUnknown == "unknown"
OptionTypeBool == "bool"
OptionTypeInt == "int"
OptionTypeFloat == "float"
OptionTypeString == "string"
OptionTypeField == "field"

NewTagNode == [Rules |-> <<>>, Key |-> <<>>, Elem |-> <<>>]
Ret(tn) == [panic |-> FALSE, tn |-> <<tn>>]
Panicked == [panic |-> TRUE, tn |-> <<>>]

\* the number of leading characters of s from 0-based index i on that are in set cs
RECURSIVE span(_, _, _)
span(s, i, cs) == IF i < Len(s) /\ At(s, i) \in cs THEN span(s, i + 1, cs) ELSE i

\* the same, for the characters that are not in cs
RECURSIVE spanNot(_, _, _)
spanNot(s, i, cs) == IF i < Len(s) /\ At(s, i) \notin cs THEN spanNot(s, i + 1, cs) ELSE i

\* isvalid.Int: ^[+-]?[0-9]+$
isvalidInt(v) ==
    LET a == IF Len(v) > 0 /\ At(v, 0) \in {"+", "-"} THEN 1 ELSE 0
    IN  Len(v) > a /\ span(v, a, Digit) = Len(v)

\* isvalid.Float: ^[+-]?(?:[0-9]*)?(?:\.[0-9]*)?(?:[eE][+-]?[0-9]+)?$
isvalidFloat(v) ==
    LET a == IF Len(v) > 0 /\ At(v, 0) \in {"+", "-"} THEN 1 ELSE 0
        b == span(v, a, Digit)
        c == IF b < Len(v) /\ At(v, b) = "." THEN span(v, b + 1, Digit) ELSE b
        d == IF c < Len(v) /\ At(v, c) \in {"e", "E"} THEN c + 1 ELSE c
        e == IF d > c /\ d < Len(v) /\ At(v, d) \in {"+", "-"} THEN d + 1 ELSE d
        f == span(v, e, Digit)
    IN  /\ v \notin {<<>>, <<".">>, <<"+">>, <<"-">>}
        /\ \/ c = Len(v)
           \/ d > c /\ f > e /\ f = Len(v)

parseRuleTagOption(val) ==
    IF Len(val) > 0
    THEN IF At(val, 0) = "&"
         THEN [Type |-> OptionTypeField, Value |-> From(val, 1)]
         ELSE [Value |-> val,
               Type |-> IF isvalidInt(val) THEN OptionTypeInt
                        ELSE IF isvalidFloat(val) THEN OptionTypeFloat
                        ELSE IF rxBool(val) THEN OptionTypeBool
                        ELSE IF val # <<"n", "i", "l">> THEN OptionTypeString
                        ELSE OptionTypeUnknown]
    ELSE [Type |-> OptionTypeUnknown, Value |-> <<>>]

\* `for i < len(tag) && tag[i] != '"' { if tag[i] == '\\' { i++ }; i++ }`
RECURSIVE quoteScan(_, _)
quoteScan(s, i) ==
    IF i < Len(s) /\ At(s, i) # "\""
    THEN quoteScan(s, (IF At(s, i) = "\\" THEN i + 1 ELSE i) + 1)
    ELSE i

\* scan up to the matching closing bracket; yields i
RECURSIVE bracketScan(_, _, _)
bracketScan(s, i, n) ==
    IF i < Len(s) /\ (At(s, i) # "]" \/ n > 0)
    THEN LET n1 == IF At(s, i) = "[" THEN n + 1
                   ELSE IF At(s, i) = "]" THEN n - 1 ELSE n
             i1 == i + 1
             i2 == quoteScan(s, i1)
         IN  IF At(s, i1 - 1) = "\""
             THEN bracketScan(s, IF i2 < Len(s) THEN i2 + 1 ELSE i2, n1)
             ELSE bracketScan(s, i1, n1)
    ELSE i

\* the loop that scans a rule's options; s starts with ':'.
\* Yields [panic, tag, r]: the rest of the tag and the rule.
RECURSIVE scanOptions(_, _)
scanOptions(s0, r) ==
    IF s0 = <<>> THEN [panic |-> FALSE, tag |-> s0, r |-> r]
    ELSE LET s == From(s0, 1) IN
         IF Len(s) > 0 /\ At(s, 0) = "\""
         THEN LET i == quoteScan(s, 1) IN
              IF i > Len(s) THEN [panic |-> TRUE, tag |-> <<>>, r |-> r]
              ELSE LET opt == [Type |-> OptionTypeString, Value |-> Sub(s, 1, i)]
                       r1 == [r EXCEPT !.Options = Append(@, opt)]
                       t1 == From(s, i)
                       t2 == IF Len(t1) > 0 /\ At(t1, 0) = "\"" THEN From(t1, 1) ELSE t1
                   IN  IF Len(t2) > 0 /\ At(t2, 0) = ":" THEN scanOptions(t2, r1)
                       ELSE [panic |-> FALSE, r |-> r1,
                             tag |-> IF Len(t2) > 0 /\ At(t2, 0) = ","
                                     THEN From(t2, 1) ELSE t2]
         ELSE LET i == spanNot(s, 0, {":", ","})
                  optstr == Sub(s, 0, i)
                  r1 == IF Len(optstr) > 0 /\ At(optstr, 0) = "@"
                        THEN [r EXCEPT !.Context = From(optstr, 1)]
                        ELSE [r EXCEPT !.Options = Append(@, parseRuleTagOption(optstr))]
                  t1 == From(s, i)
              IN  IF t1 = <<>> THEN [panic |-> FALSE, tag |-> t1, r |-> r1]
                  ELSE IF At(t1, 0) = "," THEN [panic |-> FALSE, tag |-> From(t1, 1), r |-> r1]
                  ELSE scanOptions(t1, r1)

addRule(tn, r) == [tn EXCEPT !.Rules = Append(@, r)]

RECURSIVE parser(_)
RECURSIVE parserLoop(_, _)
RECURSIVE parseBracketed(_, _)

\* the branch `if tag[0] == '['`
parseBracketed(s, tn) ==
    LET i == bracketScan(s, 1, 0) IN
    IF i > Len(s) THEN Panicked
    ELSE LET ktag == Sub(s, 1, i)
             etag == From(s, i)
             key == IF Len(ktag) > 0 THEN parser(ktag) ELSE Ret(NewTagNode)
             elem == IF Len(etag) > 1 THEN parser(From(etag, 1)) ELSE Ret(NewTagNode)
         IN  IF key.panic THEN Panicked
             ELSE IF elem.panic THEN Panicked
             ELSE Ret([tn EXCEPT !.Key = IF Len(ktag) > 0 THEN key.tn ELSE <<>>,
                                 !.Elem = IF Len(etag) > 1 THEN elem.tn ELSE <<>>])

\* the loop `for tag != ""` of the parser closure
parserLoop(s0, tn) ==
    LET s == From(s0, span(s0, 0, {" "})) IN
    IF s = <<>> THEN Ret(tn)
    ELSE IF At(s, 0) = "[" THEN parseBracketed(s, tn)
    ELSE LET i == spanNot(s, 0, {":", ","})
         IN  IF i = 0 THEN parserLoop(From(s, 1), tn)
             ELSE LET r == [Name |-> Sub(s, 0, i), Options |-> <<>>, Context |-> <<>>]
                      rest == From(s, i)
                      o == scanOptions(rest, r)
                  IN  IF rest = <<>> THEN Ret(addRule(tn, r))
                      ELSE IF At(rest, 0) = "," THEN parserLoop(From(rest, 1), addRule(tn, r))
                      ELSE IF o.panic THEN Panicked
                      ELSE parserLoop(o.tag, addRule(tn, o.r))

parser(s) == parserLoop(s, NewTagNode)

\* val is the value of the `is` key of the struct tag
parseRuleTag(val) ==
    IF val = <<"-">> \/ Len(val) = 0 THEN Ret(NewTagNode) ELSE parser(val)

\* the values of the `is` tag the parser is run on
TagChars == {"a", ":", ",", "[", "]", "\"", "\\", " ", "@", "&"}
Tags == UNION {[1..n -> TagChars] : n \in 0..MaxTagLen}

Init_Parse ==
    /\ AnalysisInit
    /\ GeneratorInit
    /\ ExtInit
    /\ tag \in Tags
    /\ parsed = NotCalled

ParseRuleTag ==
    /\ ~parsed.called
    /\ parsed' = [called |-> TRUE] @@ parseRuleTag(tag)
    /\ UNCHANGED <<tag, anVars, genVars, extVars>>

Next_Parse == ParseRuleTag

Spec_Parse == Init_Parse /\ [][Next_Parse]_vars

\* C4 (as stated): for every value of the `is` tag parseRuleTag returns a
\* TagNode and never aborts with an index or a slice out of range.
C4_NeverPanics == parsed.called => (~parsed.panic /\ Len(parsed.tn) = 1)

-----------------------------------------------------------------------------
(* The generator (generator.go).                                           *)
(*                                                                         *)
(* Names, keys and patterns, which the generator only copies and compares, *)
(* are TLA+ strings.  The nodes of the emitted syntax tree are records     *)
(* tagged with the name of the node type; an interface or pointer valued   *)
(* slot is nil (<<>>) or holds one node (<<n>>).                           *)

Ident(name) == [t |-> "Ident", Name |-> name]
NIL == Ident("nil")
ERR == Ident("err")
recv == Ident("v")
SelectorExpr(x, sel) == [t |-> "SelectorExpr", X |-> x, Sel |-> sel]
QualifiedIdent(pkg, name) == [t |-> "QualifiedIdent", Pkg |-> pkg, Name |-> name]
PointerIndirectionExpr(x) == [t |-> "PointerIndirectionExpr", X |-> x]
BinaryExpr(op, x, y) == [t |-> "BinaryExpr", Op |-> op, X |-> x, Y |-> y]
UnaryExpr(op, x) == [t |-> "UnaryExpr", Op |-> op, X |-> x]
ParenExpr(x) == [t |-> "ParenExpr", X |-> x]
CallExpr(fun, args) == [t |-> "CallExpr", Fun |-> fun, Args |-> args]
CallLenExpr(x) == [t |-> "CallLenExpr", X |-> x]
StringLit(v) == [t |-> "StringLit", Value |-> v]
RawStringLit(v) == [t |-> "RawStringLit", Value |-> v]
IntLit(v) == [t |-> "IntLit", Value |-> v]
ValueLit(v) == [t |-> "ValueLit", Value |-> v]
IfStmt(init, cond, body, else) ==
    [t |-> "IfStmt", Init |-> init, Cond |-> cond, Body |-> body, Else |-> else]
BlockStmt(list) == [t |-> "BlockStmt", List |-> list]
ReturnStmt(res) == [t |-> "ReturnStmt", Result |-> res]
ExprStmt(x) == [t |-> "ExprStmt", X |-> x]
AssignStmt(lhs, rhs) == [t |-> "AssignStmt", Lhs |-> lhs, Rhs |-> rhs]
ForStmt(clause, body) == [t |-> "ForStmt", Clause |-> clause, Body |-> body]
ForRangeClause(key, value, x) == [Key |-> key, Value |-> value, X |-> x]

\* a nil ExprNode in the slot of a node
NilExpr == [t |-> "nil"]

BinaryLAnd == "&&"
BinaryLOr == "||"
BinaryEql == "=="
BinaryNeq == "!="
BinaryLss == "<"
BinaryGtr == ">"
BinaryLeq == "<="
BinaryGeq == ">="
UnaryNot == "!"

\* addimport: yields the impspec and the file; a package path is the
\* sequence of its segments, each a string as the rest of the model has
\* them; the name is the last segment, with the digits of the number
\* appended when it is an alias
addimport(f, path) ==
    LET name == Last(path)
        same == {i \in 1..Len(f.impset) : f.impset[i].path = path}
        sakes == {i \in 1..Len(f.impset) : f.impset[i].name = name}
        ns == CHOOSE i \in sakes : \A j \in sakes : j <= i
        num == f.impset[ns].num + 1
        imp == IF sakes # {}
               THEN [path |-> path, name |-> name \o FormatUint(num), local |-> TRUE,
                     num |-> 0]
               ELSE [path |-> path, name |-> name, local |-> FALSE, num |-> 0]
    IN  IF same # {}
        THEN [imp |-> f.impset[CHOOSE i \in same : \A j \in same : i <= j], file |-> f]
        ELSE [imp |-> imp,
              file |-> [f EXCEPT !.impset =
                          Append(IF sakes # {} THEN [@ EXCEPT ![ns].num = num] ELSE @, imp)]]

\* TagNode.ContainsRules
RECURSIVE ContainsRules(_)
ContainsRules(tn) ==
    tn # <<>> /\ \/ Len(tn[1].Rules) > 0
                 \/ ContainsRules(tn[1].Key)
                 \/ ContainsRules(tn[1].Elem)

\* StructField.ContainsRules: the field's rule tag or one of the fields of
\* its struct type contains rules
RECURSIVE fieldContainsRules(_)
fieldContainsRules(f) ==
    \/ ContainsRules(<<f.RuleTag>>)
    \/ \E i \in 1..Len(f.Fields) : fieldContainsRules(f.Fields[i])

\* the fields of a struct type; the model keeps them with the struct field
typeFields(code) == IF code.vtype.Kind = "struct" THEN code.field.Fields ELSE <<>>

\* error message configuration
errorConfig(text) == [text |-> text, suffix |-> "", argSep |-> "", omitArgs |-> FALSE]
errorConfigSep(text, sep) == [errorConfig(text) EXCEPT !.argSep = sep]
\* the alternative form n of a rule's message is the element n + 1
errorConfigMap ==
    [required |-> <<errorConfig("is required")>>,
     notnil |-> <<errorConfig("cannot be nil")>>,
     email |-> <<errorConfig("must be a valid email")>>,
     phone |-> <<[errorConfig("must be a valid phone number") EXCEPT !.omitArgs = TRUE]>>,
     re |-> <<errorConfig("must match the regular expression")>>,
     prefix |-> <<errorConfigSep("must be prefixed with", " or ")>>,
     suffix |-> <<errorConfigSep("must be suffixed with", " or ")>>,
     contains |-> <<errorConfigSep("must contain substring", " or ")>>,
     eq |-> <<errorConfigSep("must be equal to", " or ")>>,
     ne |-> <<errorConfigSep("must not be equal to", " or ")>>,
     gt |-> <<errorConfig("must be greater than")>>,
     lt |-> <<errorConfig("must be less than")>>,
     gte |-> <<errorConfig("must be greater than or equal to")>>,
     lte |-> <<errorConfig("must be less than or equal to")>>,
     min |-> <<errorConfig("must be greater than or equal to")>>,
     max |-> <<errorConfig("must be less than or equal to")>>,
     rng |-> <<errorConfigSep("must be between", " and ")>>,
     len |-> <<errorConfig("must be of length"),
               errorConfig("must be of length at least"),
               errorConfig("must be of length at most"),
               [errorConfigSep("must be of length between", " and ")
                   EXCEPT !.suffix = "(inclusive)"]>>]

\* errorConfigMap[name][altform]; a missing key yields the zero errorConfig
errorConfigOf(name, altform) ==
    IF name \in DOMAIN errorConfigMap /\ altform + 1 <= Len(errorConfigMap[name])
    THEN errorConfigMap[name][altform + 1]
    ELSE errorConfig("")

\* an alternative form that takes the lower bound for the upper bound
altformSwapped(r) ==
    IF r.Name = "len" /\ Len(r.Args) = 2
    THEN IF r.Args[1].Value # "" /\ r.Args[2].Value = "" THEN 2
         ELSE IF r.Args[1].Value = "" /\ r.Args[2].Value # "" THEN 1
         ELSE 3
    ELSE 0

\* the alternative form of the error message, only "len" has more than one
altform(r) ==
    IF r.Name = "len" /\ Len(r.Args) = 2
    THEN IF r.Args[1].Value # "" /\ r.Args[2].Value = "" THEN 1
         ELSE IF r.Args[1].Value = "" /\ r.Args[2].Value # "" THEN 2
         ELSE 3
    ELSE 0

\* the selector expression v.A.B of a field reference
RECURSIVE selectorChain(_, _)
selectorChain(x, sel) ==
    IF sel = <<>> THEN x ELSE selectorChain(SelectorExpr(x, Ident(Head(sel))), Tail(sel))

\* g.info.SelectorMap[key]; a selector lists [Name, Type] of its fields
selectorOf(g, key) ==
    IF key \in DOMAIN g.info.SelectorMap THEN g.info.SelectorMap[key] ELSE <<>>

fieldSelector(g, key) ==
    selectorChain(recv, [i \in 1..Len(selectorOf(g, key)) |-> selectorOf(g, key)[i].Name])

\* the loop over r.Args of newErrorExpr; yields [args, refs]
RECURSIVE errorArgs(_, _, _, _, _)
errorArgs(g, args, numeric, out, refs) ==
    IF args = <<>> THEN [args |-> out, refs |-> refs]
    ELSE LET a == IF Head(args).Type = ArgTypeUnknown /\ numeric
                  THEN [Type |-> ArgTypeInt, Value |-> "0"] ELSE Head(args)
         IN  IF a.Value = "" THEN errorArgs(g, Tail(args), numeric, out, refs)
             ELSE IF a.Type = ArgTypeField
             THEN errorArgs(g, Tail(args), numeric, Append(out, [lit |-> "%v", quoted |-> FALSE]),
                            Append(refs, fieldSelector(g, a.Value)))
             ELSE IF a.Type = ArgTypeString
             THEN errorArgs(g, Tail(args), numeric, Append(out, [lit |-> a.Value, quoted |-> TRUE]), refs)
             ELSE errorArgs(g, Tail(args), numeric,
                            Append(out, [lit |-> a.Value, quoted |-> FALSE]), refs)

\* newErrorExpr: yields the expression x and the file; the text of the
\* message is kept as the list of its parts
newErrorExpr(g, f, code, r) ==
    LET rt == IF r.Name \in DOMAIN g.info.RuleTypeMap THEN <<g.info.RuleTypeMap[r.Name]>>
              ELSE <<>>
        custom == /\ rt # <<>>
                  /\ rt[1].kind \in {"IsValid", "Enum", "Func"}
                  /\ (rt[1].kind # "Func" \/ rt[1].IsCustom)
        conf == errorConfigOf(r.Name, altform(r))
        ea == IF conf.omitArgs THEN [args |-> <<>>, refs |-> <<>>]
              ELSE errorArgs(g, r.Args, IsNumeric(PtrBase(code.field.Type).Kind), <<>>, <<>>)
        text == [key |-> code.field.Key, text |-> conf.text, args |-> ea.args,
                 argSep |-> conf.argSep, suffix |-> conf.suffix]
    IN  IF custom
        THEN [x |-> CallExpr(QualifiedIdent("errors", "New"),
                             <<ValueLit([key |-> code.field.Key, text |-> "is not valid",
                                         args |-> <<>>, argSep |-> "", suffix |-> ""])>>),
              file |-> [f EXCEPT !.importErrors = TRUE]]
        ELSE IF Len(ea.refs) > 0
        THEN [x |-> CallExpr(QualifiedIdent("fmt", "Errorf"), <<ValueLit(text)>> \o ea.refs),
              file |-> [f EXCEPT !.importFmt = TRUE]]
        ELSE [x |-> CallExpr(QualifiedIdent("errors", "New"), <<ValueLit(text)>>),
              file |-> [f EXCEPT !.importErrors = TRUE]]

\* the argument of the error handler call for one rule argument
handlerArg(g, a) ==
    CASE a.Type = ArgTypeField -> fieldSelector(g, a.Value)
      [] a.Type = ArgTypeString -> StringLit(a.Value)
      [] a.Type = ArgTypeUnknown -> StringLit("")
      [] OTHER -> ValueLit(a.Value)

\* the return of the error expression e, with the file
returnError(e) == [x |-> ReturnStmt(e.x), file |-> e.file]

\* newErrorReturnStmt: yields the statement x and the file
newErrorReturnStmt(g, f, code, r) ==
    IF g.vs.ErrorHandler # <<>>
    THEN LET args == <<StringLit(code.field.Key), code.vexpr, StringLit(r.Name)>>
                     \o [i \in 1..Len(r.Args) |-> handlerArg(g, r.Args[i])]
             eh == SelectorExpr(QualifiedIdent("v", g.vs.ErrorHandler[1].Name), Ident("Error"))
         IN  [x |-> IF g.vs.ErrorHandler[1].IsAggregator THEN ExprStmt(CallExpr(eh, args))
                    ELSE ReturnStmt(CallExpr(eh, args)),
              file |-> f]
    ELSE returnError(newErrorExpr(g, f, code, r))

\* a varcode for a variable of the given type, expression and field
newVarcode(vtype, vexpr, field) ==
    [vtype |-> vtype, vexpr |-> vexpr, field |-> field,
     key |-> <<>>, elem |-> <<>>, fields |-> <<>>,
     rules |-> <<>>, required |-> <<>>, notnil |-> <<>>,
     ruleifs |-> <<>>, rqif |-> <<>>, nnif |-> <<>>, ng |-> <<>>, sb |-> <<>>]

\* split off the "required" and "notnil" rules
RECURSIVE splitRules(_, _)
splitRules(code, rules) ==
    IF rules = <<>> THEN code
    ELSE LET r == Head(rules) IN
         splitRules(IF r.Name = "required" THEN [code EXCEPT !.required = <<r>>]
                    ELSE IF r.Name = "notnil" THEN [code EXCEPT !.notnil = <<r>>]
                    ELSE [code EXCEPT !.rules = Append(@, r)],
                    Tail(rules))

\* the loop that handles multiple pointers
RECURSIVE nilGuardLoop(_, _, _)
nilGuardLoop(code, lop, eop) ==
    IF code.vtype.Kind = "ptr"
    THEN nilGuardLoop([code EXCEPT
                         !.ng = <<BinaryExpr(lop, @[1], BinaryExpr(eop, code.vexpr, NIL))>>,
                         !.vexpr = PointerIndirectionExpr(@),
                         !.vtype = @.Elem[1]],
                      lop, eop)
    ELSE code

\* a nil guard that never looks at "required" and "notnil"
nilGuardLax(code) ==
    IF code.vtype.Kind # "ptr" THEN code
    ELSE nilGuardLoop([code EXCEPT !.ng = <<BinaryExpr(BinaryNeq, code.vexpr, NIL)>>,
                                   !.vexpr = PointerIndirectionExpr(@),
                                   !.vtype = @.Elem[1]],
                      BinaryLAnd, BinaryNeq)

buildVarCodeNilGuard(code) ==
    IF code.vtype.Kind # "ptr" THEN code
    ELSE LET strict == code.required # <<>> \/ code.notnil # <<>>
             lop == IF strict THEN BinaryLOr ELSE BinaryLAnd
             eop == IF strict THEN BinaryEql ELSE BinaryNeq
         IN  nilGuardLoop([code EXCEPT !.ng = <<BinaryExpr(eop, code.vexpr, NIL)>>,
                                       !.vexpr = PointerIndirectionExpr(@),
                                       !.vtype = @.Elem[1]],
                          lop, eop)

\* nil when the kind has no "zero" comparison
newRequiredExpr(code) ==
    LET k == code.vtype.Kind IN
    CASE k \in {"string", "map", "slice"} ->
           <<BinaryExpr(BinaryEql, CallLenExpr(code.vexpr), IntLit("0"))>>
      [] k \in IntegerKinds \/ k \in {"uint", "uint8", "uint16", "uint32", "uint64"} ->
           <<BinaryExpr(BinaryEql, code.vexpr, IntLit("0"))>>
      [] k \in FloatKinds -> <<BinaryExpr(BinaryEql, code.vexpr, ValueLit("0.0"))>>
      [] k = "bool" -> <<BinaryExpr(BinaryEql, code.vexpr, ValueLit("false"))>>
      [] k \in {"ptr", "interface"} -> <<BinaryExpr(BinaryEql, code.vexpr, NIL)>>
      [] OTHER -> <<>>

newNotnilExpr(code) ==
    IF code.vtype.Kind \in {"ptr", "slice", "map", "interface"}
    THEN <<BinaryExpr(BinaryEql, code.vexpr, NIL)>> ELSE <<>>

\* the condition of the "required" / "notnil" IfStmt: the check joined with
\* the nil guard, and with the comparison of the context option
guardedCond(g, code, cond0, r) ==
    LET cond == IF cond0 # <<>> /\ code.ng # <<>>
                THEN <<BinaryExpr(BinaryLOr, code.ng[1], cond0[1])>>
                ELSE IF code.ng # <<>> THEN code.ng ELSE cond0
        opt == SelectorExpr(recv, Ident(g.vs.ContextOption[1].Name))
    IN  IF r.Context # ""
        THEN <<BinaryExpr(BinaryLAnd, IF cond = <<>> THEN NilExpr ELSE cond[1],
                          BinaryExpr(BinaryEql, opt, StringLit(r.Context)))>>
        ELSE cond

\* the varcode with the "required" IfStmt, and the file of its error statement
setRqif(code, cond, ret) ==
    [code |-> [code EXCEPT !.rqif = <<IfStmt(<<>>, cond, <<ret.x>>, <<>>)>>],
     file |-> ret.file]

\* the same for the "notnil" IfStmt
setNnif(code, cond, ret) ==
    [code |-> [code EXCEPT !.nnif = <<IfStmt(<<>>, cond, <<ret.x>>, <<>>)>>],
     file |-> ret.file]

\* b is [code, file], and so is the result
buildVarCodeRequired(g, b) ==
    IF b.code.required = <<>> THEN b
    ELSE setRqif(b.code,
                 guardedCond(g, b.code, newRequiredExpr(b.code), b.code.required[1]),
                 newErrorReturnStmt(g, b.file, b.code, b.code.required[1]))

buildVarCodeNotnil(g, b) ==
    IF b.code.notnil = <<>> THEN b
    ELSE setNnif(b.code,
                 guardedCond(g, b.code, newNotnilExpr(b.code), b.code.notnil[1]),
                 newErrorReturnStmt(g, b.file, b.code, b.code.notnil[1]))

buildVarCodeSubBlock(code) ==
    IF code.ng = <<>> THEN code
    ELSE IF Len(typeFields(code)) = 0 /\ (code.nnif # <<>> \/ code.rqif # <<>>) THEN code
    ELSE IF Len(typeFields(code)) = 0 /\ Len(code.rules) < 2 THEN code
    ELSE [code EXCEPT !.vexpr = Ident("f"),
                      !.sb = Append(@, AssignStmt(Ident("f"), code.vexpr))]

\* RuleTypeFunc.TypesForArgs
RECURSIVE padTypes(_, _, _)
padTypes(types, last, n) == IF Len(types) >= n THEN types ELSE padTypes(Append(types, last), last, n)

TypesForArgs(rt, args) ==
    LET types == Tail(rt.ArgTypes)
        last == Last(rt.ArgTypes)
    IN  IF rt.IsVariadic
        THEN padTypes(IF Len(types) > 0 THEN [types EXCEPT ![Len(types)] = last.Elem[1]]
                      ELSE <<last.Elem[1]>>,
                      last.Elem[1], Len(args))
        ELSE padTypes(types, last, Len(args))

\* Type.NeedsConversion
NeedsConversion(t, u) == ~Equals(u, t) /\ ~u.IsEmptyInterface

\* Type.String, as the list of its parts; the types of the model are
\* declared in the package of the validator and carry no alias names
RECURSIVE TypeString(_)
TypeString(t) ==
    IF t.Name # "" THEN <<t.Name>>
    ELSE IF IsBasic(t.Kind) THEN <<t.Kind>>
    ELSE CASE t.Kind = "array" -> <<"[", t.ArrayLen, "]">> \o TypeString(t.Elem[1])
           [] t.Kind = "interface" ->
                IF t.IsEmptyInterface THEN <<"interface{}">> ELSE <<"interface{ ... }">>
           [] t.Kind = "map" ->
                <<"map[">> \o TypeString(t.Key[1]) \o <<"]">> \o TypeString(t.Elem[1])
           [] t.Kind = "ptr" -> <<"*">> \o TypeString(t.Elem[1])
           [] t.Kind = "slice" -> <<"[]">> \o TypeString(t.Elem[1])
           [] t.Kind = "struct" -> <<"struct{}">>
           [] OTHER -> <<"<unknown>">>

newArgFieldSelectorExpr(g, a, t) ==
    LET x == fieldSelector(g, a.Value)
        last == Last(selectorOf(g, a.Value))
    IN  IF NeedsConversion(t, last.Type) THEN CallExpr(Ident(TypeString(last.Type)), <<x>>)
        ELSE x

newArgConstExpr(g, r, a, t) ==
    LET rt == g.info.RuleTypeMap[r.Name]
        userawstring == rt.kind = "Func" /\ rt.UseRawString
        str == IF userawstring THEN RawStringLit(a.Value)
               ELSE ValueLit([lit |-> a.Value, quoted |-> TRUE])
    IN  IF t.IsEmptyInterface
        THEN IF a.Type = ArgTypeString THEN str ELSE ValueLit(a.Value)
        ELSE IF t.Kind = "string" THEN str
        ELSE CASE a.Type = ArgTypeUnknown ->
                    (CASE t.Kind = "string" -> StringLit("")
                       [] t.Kind \in IntegerKinds -> IntLit("0")
                       [] t.Kind \in {"uint", "uint8", "uint16", "uint32", "uint64"} -> IntLit("0")
                       [] t.Kind \in FloatKinds -> ValueLit("0.0")
                       [] t.Kind = "bool" -> ValueLit("false")
                       [] t.Kind \in {"ptr", "interface", "map", "slice"} -> NIL
                       [] OTHER -> NilExpr)
               [] a.Type \in {ArgTypeBool, ArgTypeInt, ArgTypeFloat} -> ValueLit(a.Value)
               [] a.Type = ArgTypeString -> str
               [] a.Type = ArgTypeField -> fieldSelector(g, a.Value)

newArgValueExpr(g, r, a, t) ==
    IF a.Type = ArgTypeField THEN newArgFieldSelectorExpr(g, a, t)
    ELSE newArgConstExpr(g, r, a, t)

\* the registry calls that the regexp rule adds to the init function, one
\* per argument
registerRegexps(imp, r) ==
    IF r.Name = "re"
    THEN [i \in 1..Len(r.Args) |->
            ExprStmt(CallExpr(QualifiedIdent(imp.name, "RegisterRegexp"),
                              <<RawStringLit(r.Args[i].Value)>>))]
    ELSE <<>>

\* the IfStmt of a rule's call with the error statement ret as its body, and
\* the file with the registry calls regs added to the init function
ruleIf(call, regs, ret) ==
    [x |-> IfStmt(<<>>, <<UnaryExpr(UnaryNot, call)>>, <<ret.x>>, <<>>),
     file |-> [ret.file EXCEPT !.init = @ \o regs]]

\* the call of the rule's function, qualified by the import imp
ruleFuncCall(g, code, r, rt, imp) ==
    CallExpr(QualifiedIdent(imp.name, rt.FuncName),
             <<code.vexpr>> \o
             [i \in 1..Len(r.Args) |->
                newArgValueExpr(g, r, r.Args[i], TypesForArgs(rt, r.Args)[i])])

\* newRuleTypeFuncIfStmt after addimport, which yielded ai
ruleFuncIf(g, code, r, rt, ai) ==
    ruleIf(ruleFuncCall(g, code, r, rt, ai.imp), registerRegexps(ai.imp, r),
           newErrorReturnStmt(g, ai.file, code, r))

\* yields the IfStmt x and the file
newRuleTypeFuncIfStmt(g, f, code, r, rt) ==
    ruleFuncIf(g, code, r, rt, addimport(f, rt.PkgPath))

newRuleTypeIsValidIfStmt(g, f, code, r) ==
    ruleIf(CallExpr(SelectorExpr(IF code.field.Type.Kind = "ptr" THEN ParenExpr(code.vexpr)
                                 ELSE code.vexpr,
                                 Ident("IsValid")), <<>>),
           <<>>, newErrorReturnStmt(g, f, code, r))

\* a table that takes the strict comparisons for the inclusive ones
basicRuleToStrictOp ==
    [eq |-> BinaryNeq, ne |-> BinaryEql, gt |-> BinaryLss, lt |-> BinaryGtr,
     gte |-> BinaryLss, lte |-> BinaryGtr, min |-> BinaryLss, max |-> BinaryGtr]

basicRuleToBinaryOp ==
    [eq |-> BinaryNeq, ne |-> BinaryEql, gt |-> BinaryLeq, lt |-> BinaryGeq,
     gte |-> BinaryLss, lte |-> BinaryGtr, min |-> BinaryLss, max |-> BinaryGtr]

basicRuleToLogicalOp == [eq |-> BinaryLAnd, ne |-> BinaryLOr]

\* a map lookup that yields the zero operator for a missing key
opOf(m, name) == IF name \in DOMAIN m THEN m[name] ELSE ""

\* LogicalOp of a RuleTypeFunc; the generator tells the connectives apart
\* and tests `LOp > 0` for a function with one
LogicalNone == 0
LogicalNot == 1
LogicalAnd == 2
LogicalOr == 3

\* the condition cond joined to the conditions built so far (nil is <<>>)
joinCond(lop, sofar, cond) ==
    IF sofar # <<>> THEN <<BinaryExpr(lop, sofar[1], cond)>> ELSE <<cond>>

\* an IfStmt with the condition c (nil is <<>>) and the error statement as
\* its body, and the file
condIf(c, ret) == [x |-> IfStmt(<<>>, c, <<ret.x>>, <<>>), file |-> ret.file]

\* stands for the statement that is never built because the generator
\* dereferenced a nil varcode
PanicStmt == [t |-> "panic"]

\* the statement that is never built because the generator indexed past
\* r.Args
indexPanic(f) == [x |-> PanicStmt, file |-> f]

\* the loop `for _, a := range r.Args` of newRuleTypeBasicIfStmt
RECURSIVE basicConds(_, _, _, _, _, _)
basicConds(g, code, r, typ, args, sofar) ==
    IF args = <<>> THEN sofar
    ELSE basicConds(g, code, r, typ, Tail(args),
             joinCond(opOf(basicRuleToLogicalOp, r.Name), sofar,
                      BinaryExpr(opOf(basicRuleToBinaryOp, r.Name), code.vexpr,
                                 newArgValueExpr(g, r, Head(args), typ))))

newRuleTypeBasicIfStmt(g, f, code, r) ==
    condIf(basicConds(g, code, r, PtrBase(code.field.Type), r.Args, <<>>),
           newErrorReturnStmt(g, f, code, r))

\* the comparison of len(vexpr) with the argument a
lenCmp(g, code, r, op, a) ==
    BinaryExpr(op, CallLenExpr(code.vexpr), newArgValueExpr(g, r, a, T("int")))

newRuleTypeBasicLenIfStmt(g, f, code, r) ==
    IF Len(r.Args) = 1
    THEN condIf(<<lenCmp(g, code, r, BinaryNeq, r.Args[1])>>,
                newErrorReturnStmt(g, f, code, r))
    ELSE IF Len(r.Args) < 2 THEN indexPanic(f)
    ELSE LET a1 == r.Args[1]
             a2 == r.Args[2]
         IN  condIf(IF a1.Value # "" /\ a2.Value = ""
                    THEN <<lenCmp(g, code, r, BinaryLss, a1)>>
                    ELSE IF a1.Value = "" /\ a2.Value # ""
                    THEN <<lenCmp(g, code, r, BinaryGtr, a2)>>
                    ELSE <<ParenExpr(BinaryExpr(BinaryLOr,
                                         lenCmp(g, code, r, BinaryLss, a1),
                                         lenCmp(g, code, r, BinaryGtr, a2)))>>,
                    newErrorReturnStmt(g, f, code, r))

newRuleTypeBasicRngIfStmt(g, f, code, r) ==
    IF Len(r.Args) < 2 THEN indexPanic(f)
    ELSE LET typ == PtrBase(code.field.Type) IN
         condIf(<<ParenExpr(BinaryExpr(BinaryLOr,
                    BinaryExpr(BinaryLss, code.vexpr, newArgValueExpr(g, r, r.Args[1], typ)),
                    BinaryExpr(BinaryGtr, code.vexpr, newArgValueExpr(g, r, r.Args[2], typ))))>>,
                newErrorReturnStmt(g, f, code, r))

\* the call of the chain for the argument i
chainCall(g, code, r, rt, imp, i) ==
    CallExpr(QualifiedIdent(imp.name, rt.FuncName),
             <<code.vexpr, newArgValueExpr(g, r, r.Args[i], TypesForArgs(rt, r.Args)[i])>>)

\* the loop of newRuleTypeFuncChainIfStmt from the argument i on
RECURSIVE chainConds(_, _, _, _, _, _, _)
chainConds(g, code, r, rt, imp, i, sofar) ==
    IF i > Len(r.Args) THEN sofar
    ELSE LET call == chainCall(g, code, r, rt, imp, i)
             next == CASE rt.LOp = LogicalNot -> joinCond(BinaryLOr, sofar, call)
                       [] rt.LOp = LogicalAnd ->
                            joinCond(BinaryLOr, sofar, UnaryExpr(UnaryNot, call))
                       [] rt.LOp = LogicalOr ->
                            joinCond(BinaryLAnd, sofar, UnaryExpr(UnaryNot, call))
                       [] OTHER -> sofar
         IN  chainConds(g, code, r, rt, imp, i + 1, next)

\* newRuleTypeFuncChainIfStmt after addimport, which yielded ai
chainIf(g, code, r, rt, ai) ==
    condIf(chainConds(g, code, r, rt, ai.imp, 1, <<>>),
           newErrorReturnStmt(g, ai.file, code, r))

\* a chain that hands all the arguments to one call
chainAsOneCall(g, f, code, r, rt) ==
    ruleFuncIf(g, code, r, rt, addimport(f, rt.PkgPath))

newRuleTypeFuncChainIfStmt(g, f, code, r, rt) ==
    chainIf(g, code, r, rt, addimport(f, rt.PkgPath))

newRuleIfStmt(g, f, code, r) ==
    LET rt == g.info.RuleTypeMap[r.Name] IN
    CASE rt.kind = "IsValid" -> newRuleTypeIsValidIfStmt(g, f, code, r)
      [] rt.kind = "Basic" ->
           IF r.Name = "len" THEN newRuleTypeBasicLenIfStmt(g, f, code, r)
           ELSE IF r.Name = "rng" THEN newRuleTypeBasicRngIfStmt(g, f, code, r)
           ELSE newRuleTypeBasicIfStmt(g, f, code, r)
      [] rt.kind = "Func" ->
           IF rt.LOp > 0 THEN newRuleTypeFuncChainIfStmt(g, f, code, r, rt)
           ELSE newRuleTypeFuncIfStmt(g, f, code, r, rt)

\* the condition of a rule's IfStmt joined with the comparison of the
\* context option
withContext(g, r, x) ==
    IF r.Context # ""
    THEN [x EXCEPT !.Cond =
            <<ParenExpr(BinaryExpr(BinaryLAnd, x.Cond[1],
                  BinaryExpr(BinaryEql,
                             SelectorExpr(recv, Ident(g.vs.ContextOption[1].Name)),
                             StringLit(r.Context))))>>]
    ELSE x

\* the varcode with the IfStmt of rule r appended
addRuleIf(g, code, r, ifs) ==
    [code |-> [code EXCEPT !.ruleifs = Append(@, withContext(g, r, ifs.x))],
     file |-> ifs.file]

\* the loop of buildVarCodeRules; b is [code, file], and so is the result
RECURSIVE buildVarCodeRulesLoop(_, _, _)
buildVarCodeRulesLoop(g, b, rules) ==
    IF rules = <<>> THEN b
    ELSE buildVarCodeRulesLoop(g,
             addRuleIf(g, b.code, Head(rules), newRuleIfStmt(g, b.file, b.code, Head(rules))),
             Tail(rules))

buildVarCodeRules(g, b) == buildVarCodeRulesLoop(g, b, b.code.rules)

\* buildVarCode and the varcodes of the keys, elements and fields it
\* descends into; yields [code, file]
RECURSIVE buildVarCode(_, _, _, _)
RECURSIVE buildFieldVarCodes(_, _, _, _)

\* the varcode b.code appended to the varcodes of acc
addVarCode(acc, b) == [codes |-> Append(acc.codes, b.code), file |-> b.file]

\* the loop over the fields of a struct: x is the expression of the struct
\* (the receiver for the root fields), acc is [codes, file], and so is the
\* result
buildFieldVarCodes(g, acc, x, fields) ==
    IF fields = <<>> THEN acc
    ELSE buildFieldVarCodes(g,
             IF ~fieldContainsRules(Head(fields)) THEN acc
             ELSE addVarCode(acc,
                      buildVarCode(g, acc.file,
                          newVarcode(Head(fields).Type,
                                     SelectorExpr(x, Ident(Head(fields).Name)),
                                     Head(fields)),
                          Head(fields).RuleTag)),
             x, Tail(fields))

setKey(code, kb) == [code |-> [code EXCEPT !.key = <<kb.code>>], file |-> kb.file]
setElem(code, eb) == [code |-> [code EXCEPT !.elem = <<eb.code>>], file |-> eb.file]
setFields(code, sub) == [code |-> [code EXCEPT !.fields = sub.codes], file |-> sub.file]

\* `case analysis.TypeKindMap: if tn.Key != nil`
buildVarCodeKey(g, tn, b) ==
    IF b.code.vtype.Kind = "map" /\ tn.Key # <<>>
    THEN setKey(b.code, buildVarCode(g, b.file,
                            newVarcode(b.code.vtype.Key[1], Ident("k"), b.code.field),
                            tn.Key[1]))
    ELSE b

\* `if tn.Elem != nil`, for slices, arrays and maps
buildVarCodeElem(g, tn, b) ==
    IF b.code.vtype.Kind \in {"slice", "array", "map"} /\ tn.Elem # <<>>
    THEN setElem(b.code, buildVarCode(g, b.file,
                             newVarcode(b.code.vtype.Elem[1], Ident("e"), b.code.field),
                             tn.Elem[1]))
    ELSE b

\* `case analysis.TypeKindStruct`
buildVarCodeFields(g, b) ==
    IF b.code.vtype.Kind = "struct"
    THEN setFields(b.code, buildFieldVarCodes(g, [codes |-> <<>>, file |-> b.file],
                                              b.code.vexpr, typeFields(b.code)))
    ELSE b

\* the sub-block step on [code, file]
subBlock(b) == [code |-> buildVarCodeSubBlock(b.code), file |-> b.file]

buildVarCode(g, f, code0, tn) ==
    buildVarCodeFields(g,
      buildVarCodeElem(g, tn,
        buildVarCodeKey(g, tn,
          buildVarCodeRules(g,
            subBlock(
              buildVarCodeNotnil(g,
                buildVarCodeRequired(g,
                  [code |-> buildVarCodeNilGuard(splitRules(code0, tn.Rules)),
                   file |-> f])))))))

\* yields [codes, file]
buildVarCodes(g, f) ==
    buildFieldVarCodes(g, [codes |-> <<>>, file |-> f], recv, g.vs.Fields)

\* the IfStmt of a hook method call
hookCall(name) ==
    IfStmt(<<AssignStmt(ERR, CallExpr(QualifiedIdent("v", name), <<>>))>>,
           <<BinaryExpr(BinaryNeq, ERR, NIL)>>, <<ReturnStmt(ERR)>>, <<>>)

\* yields [beforeValidate, afterValidate]
buildHookCalls(g) ==
    [beforeValidate |-> IF g.vs.BeforeValidate # <<>>
                        THEN <<hookCall(g.vs.BeforeValidate[1].Name)>> ELSE <<>>,
     afterValidate |-> IF g.vs.AfterValidate # <<>>
                       THEN <<hookCall(g.vs.AfterValidate[1].Name)>> ELSE <<>>]

StmtList(list) == [t |-> "StmtList", List |-> list]


assembleVarCodeRules(code) ==
    LET iflist == (IF code.rqif # <<>> THEN code.rqif
                   ELSE IF code.nnif # <<>> THEN code.nnif ELSE <<>>) \o code.ruleifs
        RECURSIVE chain(_, _)
        chain(i, root) ==
            IF i < 1 THEN root
            ELSE chain(i - 1, IF root.Cond = <<>> THEN iflist[i]
                              ELSE [iflist[i] EXCEPT !.Else = <<root>>])
        root == chain(Len(iflist), IfStmt(<<>>, <<>>, <<>>, <<>>))
    IN  IF code.ng # <<>> /\ code.rqif = <<>> /\ code.nnif = <<>> /\ Len(code.ruleifs) = 1
        THEN [root EXCEPT !.Cond = <<BinaryExpr(BinaryLAnd, code.ng[1],
                                                 IF @ = <<>> THEN NilExpr ELSE @[1])>>]
        ELSE root

assembleVarCodeSubBlock(code, stmt) ==
    LET bs == BlockStmt(Append(code.sb, stmt)) IN
    IF code.sb = <<>> THEN stmt
    ELSE IF code.rqif # <<>> THEN [code.rqif[1] EXCEPT !.Else = <<bs>>]
    ELSE IF code.nnif # <<>> THEN [code.nnif[1] EXCEPT !.Else = <<bs>>]
    ELSE IF code.ng # <<>> THEN IfStmt(<<>>, code.ng, bs.List, <<>>)
    ELSE bs

\* assembleVarCode yields nil (<<>>) or the statement (<<s>>)
RECURSIVE assembleVarCode(_)
RECURSIVE assembleVarCodes(_)
RECURSIVE assembleVarCodeKeyElem(_)

\* the statements of a list of varcodes, nil results left out
assembleVarCodes(codes) ==
    IF codes = <<>> THEN <<>> ELSE assembleVarCode(Head(codes)) \o assembleVarCodes(Tail(codes))

assembleVarCodeKeyElem(code) ==
    LET ismap == code.vtype.Kind = "map"
        rc == ForRangeClause(Ident(IF ismap THEN "k" ELSE "_"), Ident("e"), code.vexpr)
        k == IF ~ismap THEN <<>>
             ELSE IF code.key = <<>> THEN <<PanicStmt>> ELSE assembleVarCode(code.key[1])
        e == IF code.elem = <<>> THEN <<PanicStmt>> ELSE assembleVarCode(code.elem[1])
    IN  IF code.vtype.Kind \notin {"slice", "array", "map"} THEN PanicStmt
        ELSE ForStmt(<<rc>>, k \o e)

assembleVarCode(code) ==
    LET stmtlist == assembleVarCodes(code.fields)
        ifs == assembleVarCodeRules(code)
        node == assembleVarCodeKeyElem(code)
    IN  IF Len(stmtlist) > 0 THEN <<assembleVarCodeSubBlock(code, StmtList(stmtlist))>>
        ELSE IF ifs.Cond # <<>> THEN <<assembleVarCodeSubBlock(code, ifs)>>
        ELSE IF code.key # <<>> \/ code.elem # <<>>
        THEN IF code.ng # <<>> THEN <<IfStmt(<<>>, code.ng, <<node>>, <<>>)>>
             ELSE <<assembleVarCodeSubBlock(code, node)>>
        ELSE <<>>

\* the closing return statement
closingReturn(g) ==
    IF g.vs.ErrorHandler # <<>> /\ g.vs.ErrorHandler[1].IsAggregator
    THEN ReturnStmt(CallExpr(SelectorExpr(SelectorExpr(recv, Ident(g.vs.ErrorHandler[1].Name)),
                                          Ident("Out")), <<>>))
    ELSE ReturnStmt(NIL)

assembleBody(g, hooks, varcodes) ==
    hooks.beforeValidate \o assembleVarCodes(varcodes) \o hooks.afterValidate
        \o <<closingReturn(g)>>

\* the file with the Validate method of the varcodes b.codes appended
addMethod(g, b) ==
    [b.file EXCEPT !.Decls =
        Append(@, [t |-> "MethodDecl", Recv |-> g.vs.TypeName, Name |-> "Validate",
                   Body |-> assembleBody(g, buildHookCalls(g), b.codes)])]

\* buildValidateMethod: yields the file with the method appended
buildValidateMethod(g, f) == addMethod(g, buildVarCodes(g, f))

\* the end of Generate: an "init()" func is added if needed
addInit(f) ==
    IF Len(f.init) > 0
    THEN [f EXCEPT !.Decls = <<[t |-> "FuncDecl", Recv |-> "", Name |-> "init",
                                Body |-> f.init]>> \o @]
    ELSE f

-----------------------------------------------------------------------------
(* Execution of an emitted Validate method.                                *)
(*                                                                         *)
(* A statement of the body is run against the value of the root field it   *)
(* checks, given by env: the pointers at the levels 0..nn-1 of the field's *)
(* pointer chain are non-nil and the one at level nn is nil; zero tells    *)
(* whether the base value is the zero value, pass whether the rule         *)
(* functions accept it, hookErr whether a hook method returns an error.    *)
(* The depth of an expression is the number of indirections it applies to  *)
(* the field; -1 stands for the run-time panic of a nil dereference.       *)

RECURSIVE evalDepth(_, _, _)
evalDepth(e, env, fd) ==
    CASE e.t = "Ident" -> IF e.Name = "f" THEN fd ELSE 0
      [] e.t = "SelectorExpr" -> IF e.X = recv THEN 0 ELSE evalDepth(e.X, env, fd)
      [] e.t = "PointerIndirectionExpr" ->
           LET j == evalDepth(e.X, env, fd) IN
           IF j = -1 \/ j >= env.nn THEN -1 ELSE j + 1
      [] e.t \in {"ParenExpr", "CallLenExpr"} -> evalDepth(e.X, env, fd)
      [] e.t = "CallExpr" ->
           IF \E i \in 1..Len(e.Args) : evalDepth(e.Args[i], env, fd) = -1 THEN -1 ELSE 0
      [] OTHER -> 0

\* the evaluation of the arguments of a call panics
argsPanic(args, env, fd) == \E i \in 1..Len(args) : evalDepth(args[i], env, fd) = -1

\* the value of a condition: "T", "F", or "P" for a panic
RECURSIVE evalCond(_, _, _, _)
evalCond(e, env, fd, cx) ==
    CASE e.t = "ParenExpr" -> evalCond(e.X, env, fd, cx)
      [] e.t = "BinaryExpr" /\ e.Op = BinaryLAnd ->
           LET x == evalCond(e.X, env, fd, cx) IN
           IF x = "T" THEN evalCond(e.Y, env, fd, cx) ELSE x
      [] e.t = "BinaryExpr" /\ e.Op = BinaryLOr ->
           LET x == evalCond(e.X, env, fd, cx) IN
           IF x = "F" THEN evalCond(e.Y, env, fd, cx) ELSE x
      [] e.t = "BinaryExpr" /\ e.Op \in {BinaryEql, BinaryNeq} ->
           LET j == evalDepth(e.X, env, fd)
               eq == IF e.X = ERR THEN ~env.hookErr
                     ELSE IF e.Y = NIL THEN j >= env.nn
                     ELSE IF e.Y.t = "StringLit" THEN cx = e.Y.Value
                     ELSE env.zero
           IN  IF j = -1 THEN "P"
               ELSE IF eq = (e.Op = BinaryEql) THEN "T" ELSE "F"
      [] e.t = "UnaryExpr" ->
           IF argsPanic(e.X.Args, env, fd) THEN "P"
           ELSE IF env.pass THEN "F" ELSE "T"
      [] OTHER -> "P"

\* the outcome of a statement: res is "next", "return" or "panic", value is
\* what was returned, reported counts the calls of the aggregator
outcome(res, value, n) == [res |-> res, value |-> value, reported |-> n]

returnValue(x) ==
    IF x = NIL THEN "nil"
    ELSE IF x = ERR THEN "hookerr"
    ELSE IF x.t = "CallExpr" /\ x.Fun.t = "SelectorExpr" /\ x.Fun.Sel = Ident("Out") THEN "out"
    ELSE "err"

RECURSIVE execStmt(_, _, _, _, _)
RECURSIVE execList(_, _, _, _, _)

execList(list, env, fd, cx, n) ==
    IF list = <<>> THEN outcome("next", "none", n)
    ELSE LET o == execStmt(Head(list), env, fd, cx, n)
             d == evalDepth(Head(list).Rhs, env, fd)
         IN  IF Head(list).t = "AssignStmt"
             THEN IF d = -1 THEN outcome("panic", "none", n)
                  ELSE execList(Tail(list), env, d, cx, n)
             ELSE IF o.res # "next" THEN o
             ELSE execList(Tail(list), env, fd, cx, o.reported)

execStmt(s, env, fd, cx, n) ==
    CASE s.t = "IfStmt" ->
           LET c == IF s.Cond = <<>> THEN "P" ELSE evalCond(s.Cond[1], env, fd, cx) IN
           IF c = "P" THEN outcome("panic", "none", n)
           ELSE IF c = "T" THEN execList(s.Body, env, fd, cx, n)
           ELSE IF s.Else = <<>> THEN outcome("next", "none", n)
           ELSE execStmt(s.Else[1], env, fd, cx, n)
      [] s.t \in {"BlockStmt", "StmtList"} -> execList(s.List, env, fd, cx, n)
      [] s.t = "ForStmt" ->
           IF evalDepth(s.Clause[1].X, env, fd) = -1 THEN outcome("panic", "none", n)
           ELSE execList(s.Body, env, fd, cx, n)
      [] s.t = "ReturnStmt" ->
           IF s.Result.t = "CallExpr" /\ argsPanic(s.Result.Args, env, fd)
           THEN outcome("panic", "none", n)
           ELSE outcome("return", returnValue(s.Result), n)
      [] s.t = "ExprStmt" ->
           IF argsPanic(s.X.Args, env, fd) THEN outcome("panic", "none", n)
           ELSE outcome("next", "none", n + 1)
      [] OTHER -> outcome("panic", "none", n)

-----------------------------------------------------------------------------
(* Generate, and a call of an emitted Validate method, as a state machine. *)

\* Most fields one generated validator struct has.
MaxGenFields == 2
\* Most targets handed to one call of Generate.
MaxTargets == 2
\* The depth of the deepest pointer chain among the generated fields.
MaxPtrDepth == 2

\* the body of the Validate method that was built last
methodBody == file.Decls[Len(file.Decls)].Body

\* the loop body of Generate for one target
BuildValidateMethod(t) ==
    /\ gpc = "generate"
    /\ Len(file.Decls) < MaxTargets
    /\ file' = buildValidateMethod(t, file)
    /\ target' = <<t.vs>>
    /\ UNCHANGED <<gpc, ctx, ip, reported, result, anVars, tagVars, extVars>>

\* the end of Generate: the init func is added and the file is written
WriteFile ==
    /\ gpc = "generate"
    /\ file' = addInit(file)
    /\ gpc' = "written"
    /\ UNCHANGED <<target, ctx, ip, reported, result, anVars, tagVars, extVars>>

\* Validate is called on a value whose context option is c
CallValidate(c) ==
    /\ gpc = "written"
    /\ target # <<>>
    /\ gpc' = "running"
    /\ ctx' = c
    /\ ip' = 1
    /\ UNCHANGED <<file, target, reported, result, anVars, tagVars, extVars>>

\* the step of a call that ran a statement with the outcome o
Proceed(o) ==
    /\ gpc' = CASE o.res = "panic" -> "panicked"
                [] o.res = "return" -> "returned"
                [] OTHER -> "running"
    /\ ip' = IF o.res = "next" THEN ip + 1 ELSE ip
    /\ reported' = o.reported
    /\ result' = o.value

\* the next statement of the body runs against the value env of its field
StepValidate(env) ==
    /\ gpc = "running"
    /\ Proceed(execStmt(methodBody[ip], env, 0, ctx, reported))
    /\ UNCHANGED <<file, target, ctx, anVars, tagVars, extVars>>

\* the run-time values of a field
Envs == [nn : 0..MaxPtrDepth, zero : BOOLEAN, pass : BOOLEAN, hookErr : BOOLEAN]
\* the run-time values of the context option
CtxValues == {"c", "d"}

-----------------------------------------------------------------------------
(* The targets handed to Generate.                                         *)

\* the rule types of the rules used below (Info.RuleTypeMap)
isvalidPkg == << <<"github.com">>, <<"frk">>, <<"isvalid">> >>
genRuleTypeMap ==
    [email |-> [kind |-> "Func", FuncName |-> "Email", PkgPath |-> isvalidPkg,
                ArgTypes |-> <<T("string")>>, IsVariadic |-> FALSE, LOp |-> 0,
                UseRawString |-> FALSE, IsCustom |-> FALSE],
     re |-> [kind |-> "Func", FuncName |-> "Match", PkgPath |-> isvalidPkg,
             ArgTypes |-> <<T("string"), T("string")>>, IsVariadic |-> FALSE, LOp |-> 0,
             UseRawString |-> TRUE, IsCustom |-> FALSE]]
genInfo == [SelectorMap |-> emptyMap, RuleTypeMap |-> genRuleTypeMap]

\* a rule, and a field whose key is its name
grule(name, args, context) == [Name |-> name, Args |-> args, Context |-> context]
gfld(name, typ, rules, fields) ==
    [Name |-> name, Key |-> name, Type |-> typ,
     RuleTag |-> [Rules |-> rules, Key |-> <<>>, Elem |-> <<>>], Fields |-> fields]
strArg(v) == [Type |-> ArgTypeString, Value |-> v]

\* a pointer chain of depth n
RECURSIVE PtrN(_, _)
PtrN(n, base) == IF n = 0 THEN base ELSE PtrT(PtrN(n - 1, base))

\* the sequences of at most n distinct elements of S
SeqsOf(S, n) ==
    {q \in UNION {[1..k -> S] : k \in 1..n} :
        \A i, j \in 1..Len(q) : i # j => q[i].Name # q[j].Name}

target1(fields, eh, before, after) ==
    [vs |-> [TypeName |-> "V", Fields |-> fields, ErrorHandler |-> eh,
             ContextOption |-> <<[Name |-> "ctx"]>>,
             BeforeValidate |-> before, AfterValidate |-> after],
     info |-> genInfo]

\* fields with the regexp rule: the same pattern on two fields, and another one
RegexpFields ==
    { gfld("F1", T("string"), <<grule("re", <<strArg("a")>>, "")>>, <<>>),
      gfld("F2", PtrT(T("string")), <<grule("re", <<strArg("a")>>, "")>>, <<>>),
      gfld("F3", T("string"), <<grule("email", <<>>, ""), grule("re", <<strArg("b")>>, "")>>, <<>>) }
RegexpTargets ==
    {target1(fs, <<>>, <<>>, <<>>) : fs \in SeqsOf(RegexpFields, MaxGenFields)}
        \cup {target1(<<gfld("F4", T("string"), <<grule("email", <<>>, "")>>, <<>>)>>,
                      <<>>, <<>>, <<>>)}

\* fields with pointer chains, required, context clauses and sub-fields
ValidateFields ==
    { gfld("F1", T("string"), <<grule("email", <<>>, "")>>, <<>>),
      gfld("F2", PtrT(T("string")), <<grule("required", <<>>, "")>>, <<>>),
      gfld("F3", PtrN(MaxPtrDepth, T("string")), <<grule("required", <<>>, "c")>>, <<>>),
      gfld("F4", PtrT(T("string")),
           <<grule("email", <<>>, ""), grule("re", <<strArg("a")>>, "")>>, <<>>),
      gfld("F5", T("struct"), <<grule("required", <<>>, "")>>, <<>>),
      gfld("F6", PtrT(T("struct")), <<grule("required", <<>>, "")>>,
           <<gfld("G", T("string"), <<grule("email", <<>>, "")>>, <<>>)>>),
      gfld("F7", PtrT(T("string")),
           <<grule("required", <<>>, ""), grule("email", <<>>, "")>>, <<>>) }
Handlers == {<<>>, <<[Name |-> "eh", IsAggregator |-> FALSE]>>,
             <<[Name |-> "eh", IsAggregator |-> TRUE]>>}
ValidateTargets ==
    {target1(fs, eh, b, a) :
        fs \in SeqsOf(ValidateFields, MaxGenFields), eh \in Handlers,
        b \in {<<>>, <<[Name |-> "beforevalidate"]>>},
        a \in {<<>>, <<[Name |-> "aftervalidate"]>>}}

Init_File ==
    /\ AnalysisInit
    /\ GeneratorInit
    /\ ExtInit
    /\ tag = <<>>
    /\ parsed = NotCalled

Next_File ==
    \/ \E t \in RegexpTargets : BuildValidateMethod(t)
    \/ WriteFile

Spec_File == Init_File /\ [][Next_File]_vars

Init_Validate == Init_File

Next_Validate ==
    \/ \E t \in ValidateTargets : target = <<>> /\ BuildValidateMethod(t)
    \/ WriteFile
    \/ \E c \in CtxValues : CallValidate(c)
    \/ \E env \in Envs : StepValidate(env)

Spec_Validate == Init_Validate /\ [][Next_Validate]_vars

-----------------------------------------------------------------------------
(* Properties of the generated file and of the emitted Validate method.    *)

\* C1: the emitted Validate never dereferences a nil pointer, for every
\* run-time nil/non-nil assignment of a field's pointer chain, every value
\* of the context option and every error-handler mode.
C1_NoNilDereference == gpc # "panicked"

\* the patterns passed to Match in an expression, a statement, a list
RECURSIVE exprPatterns(_)
exprPatterns(e) ==
    CASE e.t \in {"ParenExpr", "UnaryExpr"} -> exprPatterns(e.X)
      [] e.t = "BinaryExpr" -> exprPatterns(e.X) \cup exprPatterns(e.Y)
      [] e.t = "CallExpr" ->
           IF e.Fun.t = "QualifiedIdent" /\ e.Fun.Name = "Match"
           THEN {e.Args[i].Value : i \in 2..Len(e.Args)} ELSE {}
      [] OTHER -> {}

RECURSIVE stmtPatterns(_)
RECURSIVE listPatterns(_)
stmtPatterns(s) ==
    CASE s.t = "IfStmt" ->
           (IF s.Cond = <<>> THEN {} ELSE exprPatterns(s.Cond[1]))
               \cup listPatterns(s.Body)
               \cup (IF s.Else = <<>> THEN {} ELSE stmtPatterns(s.Else[1]))
      [] s.t \in {"BlockStmt", "StmtList"} -> listPatterns(s.List)
      [] s.t = "ForStmt" -> listPatterns(s.Body)
      [] OTHER -> {}
listPatterns(l) == UNION {stmtPatterns(l[i]) : i \in 1..Len(l)}

\* the patterns used by the Validate methods of the file, and the list of
\* the patterns registered by its init function
usedPatterns ==
    UNION {listPatterns(file.Decls[i].Body) :
              i \in {j \in 1..Len(file.Decls) : file.Decls[j].t = "MethodDecl"}}
initDecls == {i \in 1..Len(file.Decls) : file.Decls[i].t = "FuncDecl"}
registered ==
    IF initDecls = {} THEN <<>>
    ELSE LET body == file.Decls[CHOOSE i \in initDecls : TRUE].Body IN
         [i \in 1..Len(body) |-> body[i].X.Args[1].Value]

\* C7: the init function of a written file registers every pattern passed
\* to Match exactly once, it exists iff a pattern is registered, and it
\* precedes the Validate methods.
C7_RegisteredOnce ==
    gpc = "written" =>
        /\ \A p \in usedPatterns :
              Cardinality({i \in 1..Len(registered) : registered[i] = p}) = 1
        /\ \A i \in 1..Len(registered) : registered[i] \in usedPatterns
        /\ (initDecls # {}) = (usedPatterns # {})
        /\ initDecls \subseteq {1}

\* the key of the field that the first failure branch of a statement reports
callKey(c) ==
    IF c.t # "CallExpr" THEN ""
    ELSE IF c.Fun.t = "SelectorExpr" THEN c.Args[1].Value
    ELSE c.Args[1].Value.key

RECURSIVE stmtKey(_)
RECURSIVE listKey(_)
stmtKey(s) ==
    CASE s.t = "IfStmt" -> listKey(s.Body)
      [] s.t \in {"BlockStmt", "StmtList"} -> listKey(s.List)
      [] s.t = "ReturnStmt" -> callKey(s.Result)
      [] s.t = "ExprStmt" -> callKey(s.X)
      [] OTHER -> ""
listKey(l) ==
    IF l = <<>> THEN ""
    ELSE IF Head(l).t = "AssignStmt" THEN listKey(Tail(l))
    ELSE stmtKey(Head(l))

RECURSIVE fieldKeys(_)
fieldKeys(f) == {f.Key} \cup UNION {fieldKeys(f.Fields[i]) : i \in 1..Len(f.Fields)}

\* C8: the body of an emitted Validate is the before-hook call (if any),
\* one statement per field that has rules in declaration order, the
\* after-hook call (if any) and exactly one trailing return.
C8_BodyOrder ==
    target # <<>> /\ gpc = "generate" =>
        LET vs == target[1]
            fr == SelectSeq(vs.Fields, fieldContainsRules)
            nb == IF vs.BeforeValidate # <<>> THEN 1 ELSE 0
            na == IF vs.AfterValidate # <<>> THEN 1 ELSE 0
            body == methodBody
            n == Len(body)
        IN  /\ n = nb + Len(fr) + na + 1
            /\ nb = 1 => body[1] = hookCall(vs.BeforeValidate[1].Name)
            /\ \A i \in 1..Len(fr) : stmtKey(body[nb + i]) \in fieldKeys(fr[i])
            /\ na = 1 => body[n - 1] = hookCall(vs.AfterValidate[1].Name)
            /\ \A i \in 1..(n - 1) : body[i].t # "ReturnStmt"
            /\ body[n] = ReturnStmt(IF vs.ErrorHandler # <<>> /\ vs.ErrorHandler[1].IsAggregator
                                    THEN CallExpr(SelectorExpr(SelectorExpr(recv, Ident("eh")),
                                                               Ident("Out")), <<>>)
                                    ELSE NIL)

\* C9: with an aggregator a call of Validate that is not ended by a hook
\* evaluates every statement and returns through Out(); with a constructor
\* or no handler a call ends by returning: the error of the first failing
\* rule, the error of a hook, or nil.
C9_HandlerModes ==
    target # <<>> /\ gpc \in {"returned", "panicked"} =>
        IF target[1].ErrorHandler # <<>> /\ target[1].ErrorHandler[1].IsAggregator
        THEN gpc = "returned" /\ result \in {"out", "hookerr"}
             /\ (result = "out" => ip = Len(methodBody))
        ELSE gpc = "returned" /\ result \in {"err", "hookerr", "nil"} /\ reported = 0
             /\ (result = "nil" => ip = Len(methodBody))

-----------------------------------------------------------------------------
(* Config.AddRuleFunc, followed by the analysis of a struct with one       *)
(* field.                                                                  *)

Upper == <<"A", "B", "C", "D", "E", "F", "G", "H", "I", "J", "K", "L", "M",
           "N", "O", "P", "Q", "R", "S", "T", "U", "V", "W", "X", "Y", "Z">>
Lower == <<"a", "b", "c", "d", "e", "f", "g", "h", "i", "j", "k", "l", "m",
           "n", "o", "p", "q", "r", "s", "t", "u", "v", "w", "x", "y", "z">>

\* strings.ToLower, for ASCII
ToLower(str) ==
    [i \in 1..Len(str) |->
        IF \E k \in 1..26 : Upper[k] = str[i]
        THEN Lower[CHOOSE k \in 1..26 : Upper[k] = str[i]]
        ELSE str[i]]

\* helpers.go isBool: the builtin bool, not a type defined from it
isBool(typ) == typ.Kind = "bool" /\ typ.Name = ""

\* the error AddRuleFunc returns, none for nil
addRuleFuncErr(ruleName, ruleFunc) ==
    IF ToLower(ruleName) \in {<<"i", "s", "v", "a", "l", "i", "d">>, <<"e", "n", "u", "m">>}
    THEN errRuleNameUnavailable
    ELSE IF Len(ruleFunc.Params) < 1 \/ Len(ruleFunc.Results) # 1
    THEN errRuleFuncParamCount
    ELSE IF ~isBool(ruleFunc.Results[1]) THEN errRuleFuncResultType
    ELSE none

\* a call of AddRuleFunc before Analyze is called
AddRuleFunc(ruleName, ruleFunc) ==
    /\ pc = "fields" /\ structFields = <<>>
    /\ LET e == addRuleFuncErr(ruleName, ruleFunc) IN
       /\ added' = [name |-> ruleName, fn |-> ruleFunc, err |-> e]
       /\ cfgRules' = IF e = none THEN MapSet(cfgRules, ruleName, customRuleFunc(ruleFunc))
                      ELSE cfgRules
    /\ UNCHANGED <<resolved, fin, fout, anVars, tagVars, genVars>>

\* the lookup of a rule's spec at the start of the type check of the rule
LookupRuleSpec(name) ==
    /\ pc = "typecheck"
    /\ resolved' = [name |-> name, called |-> TRUE] @@ lookupRuleSpec(cfgRules, name)
    /\ UNCHANGED <<cfgRules, added, fin, fout, anVars, tagVars, genVars>>

NamedT(kind, name) == [T(kind) EXCEPT !.Name = name, !.PkgPath = "x"]

\* rule names, reserved ones in several letter cases among them
ConfigNames ==
    { <<"i", "s", "v", "a", "l", "i", "d">>, <<"I", "s", "V", "a", "l", "i", "d">>,
      <<"e", "n", "u", "m">>, <<"E", "N", "U", "M">>,
      <<"e", "m", "a", "i", "l">>, <<"x">> }

\* func() bool; func(string) bool; func(string, int) bool; func(...string) bool;
\* func(string); func(string) (bool, bool); func(string) string; func(string) B
ConfigFuncs ==
    { Func("F0", <<>>, <<T("bool")>>, FALSE),
      Func("F1", <<T("string")>>, <<T("bool")>>, FALSE),
      Func("F2", <<T("string"), T("int")>>, <<T("bool")>>, FALSE),
      Func("F3", <<SliceT(T("string"))>>, <<T("bool")>>, TRUE),
      Func("F4", <<T("string")>>, <<>>, FALSE),
      Func("F5", <<T("string")>>, <<T("bool"), T("bool")>>, FALSE),
      Func("F6", <<T("string")>>, <<T("string")>>, FALSE),
      Func("F7", <<T("string")>>, <<NamedT("bool", "B")>>, FALSE) }

\* F string `is:"email"`, `is:"email:1"`, `is:"x"`
ConfigInputs ==
    { fld(<<"A">>, "F", T("string"), "none", << <<"e", "m", "a", "i", "l">> >>),
      fld(<<"A">>, "F", T("string"), "none", << <<"e", "m", "a", "i", "l", ":", "1">> >>),
      fld(<<"A">>, "F", T("string"), "none", << <<"x">> >>) }

Init_Config ==
    /\ AnalysisInit
    /\ GeneratorInit
    /\ cfgRules = emptyMap
    /\ added = NoAdd
    /\ resolved = NoLookup
    /\ fin = <<>>
    /\ fout = NotApplied
    /\ tag = <<>>
    /\ parsed = NotCalled

Next_Config ==
    \/ \E n \in ConfigNames, f \in ConfigFuncs : AddRuleFunc(n, f)
    \/ \E inp \in ConfigInputs : structFields = <<>> /\ AnalyzeField(inp)
    \/ EndFields
    \/ \E n \in ConfigNames : LookupRuleSpec(n)
    \/ TypeCheckRules
    \/ ContextCheck
    \/ MergeRuleSpecs

Spec_Config == Init_Config /\ [][Next_Config]_vars

\* the rules of the analyzed fields whose name is a registered custom rule
customRulesPass ==
    \A i \in Fields : \A k \in 1..Len(structFields[i].Rules) :
        LET r == structFields[i].Rules[k] IN
        r.Name \in DOMAIN cfgRules =>
            typeCheckRuleFunc(r, cfgRules[r.Name], structFields[i].Type) = none

\* C11: AddRuleFunc returns an error exactly for a reserved name in any
\* letter case, a function without parameter, a function that has not
\* exactly one result, or a result that is not bool, and then leaves the
\* custom rule map as it was; otherwise the map holds the custom spec under
\* the name.  A name in the custom map resolves to the custom spec, in the
\* type check of the rules and in the merged Info.RuleSpecMap.
C11_AddRuleFunc ==
    /\ [][added' # added =>
            LET n == added'.name
                f == added'.fn
                reject == \/ ToLower(n) = <<"i", "s", "v", "a", "l", "i", "d">>
                          \/ ToLower(n) = <<"e", "n", "u", "m">>
                          \/ Len(f.Params) = 0
                          \/ Len(f.Results) # 1
                          \/ f.Results[1] # T("bool")
            IN  /\ (added'.err # none) <=> reject
                /\ reject => cfgRules' = cfgRules
                /\ ~reject => /\ DOMAIN cfgRules' = DOMAIN cfgRules \cup {n}
                              /\ cfgRules'[n].iscustom
                              /\ cfgRules'[n].FuncName = f.Name
                              /\ cfgRules'[n].ArgTypes = f.Params
                              /\ \A m \in DOMAIN cfgRules \ {n} : cfgRules'[m] = cfgRules[m]]_vars
    /\ [](resolved.called /\ resolved.name \in DOMAIN cfgRules
            => resolved.ok /\ resolved.spec = <<cfgRules[resolved.name]>>)
    /\ [](pc \in {"context", "merge"} => customRulesPass)
    /\ [](RuleSpecMap # <<>> =>
            \A n \in DOMAIN cfgRules : RuleSpecMap[1][n] = cfgRules[n])

\* the custom rule "email" with a second parameter was registered, a later
\* registration under a reserved name was rejected, the field with the rule
\* email:1 passed the type check and Info.RuleSpecMap holds the custom spec
C11_Witness ==
    /\ added.err = errRuleNameUnavailable
    /\ <<"e", "m", "a", "i", "l">> \in DOMAIN cfgRules
    /\ pc = "done" /\ err = none /\ validator # <<>>
    /\ Len(structFields) = 1 /\ Len(structFields[1].Rules[1].Args) = 1
    /\ RuleSpecMap # <<>>
    /\ RuleSpecMap[1][<<"e", "m", "a", "i", "l">>].iscustom

-----------------------------------------------------------------------------
(* The special root fields: error handler and context option.              *)

\* a string type with an IsValid method: type S string
ValiderT(kind) == [NamedT(kind, "S") EXCEPT !.IsIsValider = TRUE]

\* the declared fields; the names of the fields of the analyzed structs are
\* distinct
RoleInputs ==
    {
      \* H1 struct{...}, an error constructor; H2 an error aggregator interface
      fld(<<"H", "1">>, "H1", T("struct"), "constructor", <<>>),
      fld(<<"H", "2">>, "H2", T("interface"), "aggregator", <<>>),
      \* H3 with a rule: an error constructor `is:"e"`
      fld(<<"H", "3">>, "H3", T("interface"), "constructor", << <<"e">> >>),
      \* context string; Context string; CONTEXT int
      fld(<<"C", "1">>, "context", T("string"), "none", <<>>),
      fld(<<"C", "2">>, "Context", T("string"), "none", <<>>),
      fld(<<"C", "3">>, "CONTEXT", T("int"), "none", <<>>),
      \* conText string `is:"e"`
      fld(<<"C", "4">>, "conText", T("string"), "none", << <<"e">> >>),
      \* cOntext S `is:",e"`
      fld(<<"C", "5">>, "cOntext", ValiderT("string"), "none", << <<>>, <<"e">> >>),
      \* A string `is:"e"`
      fld(<<"A">>, "A", T("string"), "none", << <<"e">> >>)
    }

\* no field with the name of inp was declared before
fresh(inp) == \A i \in Fields : structFields[i].Name # inp.name

Next_Roles ==
    \/ \E inp \in RoleInputs : fresh(inp) /\ AnalyzeField(inp)
    \/ \E inp \in RoleInputs : fresh(inp) /\ EnterStructField(inp)
    \/ LeaveStructField
    \/ EndFields
    \/ TypeCheckRules
    \/ ContextCheck
    \/ MergeRuleSpecs

Spec_Roles == Init_Analysis /\ [][Next_Roles]_vars

\* the iteration of the loop for field i is over
processed(i) == \A k \in 1..Len(selector) : selector[k] # i

untagged(i) == Len(structFields[i].is) = 0
atRoot(i) == structFields[i].sel = <<>>
handlerFields ==
    {i \in Fields : /\ processed(i) /\ atRoot(i) /\ untagged(i)
                    /\ structFields[i].implements \in {"constructor", "aggregator"}}
contextFields ==
    {i \in Fields : /\ processed(i) /\ atRoot(i) /\ untagged(i)
                    /\ structFields[i].implements = "none"
                    /\ structFields[i].Name \in ContextNames}

\* at most one field of each role, the diagnostics of a second one and of a
\* context option that is no string, and no registered field among Fields
oneOfEachRole ==
    /\ Cardinality(handlerFields) >= 2 => err = errErrorHandlerFieldConflict
    /\ Cardinality(contextFields) >= 2 => err = errContextOptionFieldConflict
    /\ (Cardinality(contextFields) = 1 /\
            \E i \in contextFields : structFields[i].Type.Kind # "string")
          => err = errContextOptionFieldType
    /\ \A i \in Fields : structFields[i].inFields =>
          /\ ErrorHandler # <<>> => structFields[i].Name # ErrorHandler[1].Name
          /\ ContextOption # <<>> => structFields[i].Name # ContextOption[1].Name

\* the fields in a special role are untagged root fields
rolesUntaggedRoot ==
    /\ ErrorHandler # <<>> =>
          \E i \in Fields : /\ structFields[i].Name = ErrorHandler[1].Name
                            /\ atRoot(i) /\ untagged(i)
    /\ ContextOption # <<>> =>
          \E i \in Fields : /\ structFields[i].Name = ContextOption[1].Name
                            /\ atRoot(i) /\ untagged(i)

\* C12 (as stated): a second untagged root field that qualifies as error
\* handler ends the analysis with the error-handler conflict, a second
\* untagged root field named context with the context-option conflict, one
\* that is no string with the context-option type diagnostic; a field in a
\* special role is not among the validator's Fields, and a field that has
\* an `is` tag or is nested is never given a special role.
C12_SpecialRoles == oneOfEachRole /\ rolesUntaggedRoot

-----------------------------------------------------------------------------
(* The isvalid rule of the fields whose type has an IsValid method.        *)

\* the field types: S, *S and the map type M have the method, string has not
IsValiderTypes ==
    { ValiderT("string"), PtrT(ValiderT("string")), T("string"),
      [MapT(T("string"), T("string")) EXCEPT !.Name = "M", !.PkgPath = "x",
                                             !.IsIsValider = TRUE] }

\* the values of the `is` tag: "", "e", "-isvalid", " -isvalid", "isvalid", "[e]"
IsTagValues ==
    { <<>>, <<"e">>, <<"-", "i", "s", "v", "a", "l", "i", "d">>,
      <<" ", "-", "i", "s", "v", "a", "l", "i", "d">>,
      <<"i", "s", "v", "a", "l", "i", "d">>, <<"[", "e", "]">> }

\* Most values one `is` tag has.
MaxTagValues == 2

IsValiderInputs ==
    { fld(<<"F">>, "F", t, "none", is) :
        t \in IsValiderTypes, is \in UNION {[1..n -> IsTagValues] : n \in 0..MaxTagValues} }

Next_IsValider ==
    \/ \E inp \in IsValiderInputs : structFields = <<>> /\ AnalyzeField(inp)
    \/ EndFields
    \/ TypeCheckRules
    \/ ContextCheck
    \/ MergeRuleSpecs

Spec_IsValider == Init_Analysis /\ [][Next_IsValider]_vars

\* the number of rules of field i with the name isvalid
isvalidRules(i) ==
    Cardinality({k \in 1..Len(structFields[i].Rules) :
                    structFields[i].Rules[k].Name = RuleNameIsValid})

\* the tag of field i has the value -isvalid
optedOut(i) ==
    \E k \in 1..Len(structFields[i].is) :
        TrimSpace(structFields[i].is[k]) = <<"-", "i", "s", "v", "a", "l", "i", "d">>

\* C13 (as stated): after its rules were analyzed without error, a field
\* whose pointer-base type has the IsValid method holds the isvalid rule
\* exactly once, unless its tag has -isvalid, and then it holds none; a
\* field without the method holds none.
C13_IsValidOnce ==
    \A i \in Fields : structFields[i].inFields =>
        isvalidRules(i) =
            IF PtrBase(structFields[i].Type).IsIsValider /\ ~optedOut(i) THEN 1 ELSE 0

-----------------------------------------------------------------------------
(* The nil guard of one field: buildVarCode up to the "required" and       *)
(* "notnil" statements.                                                    *)

\* the base types of the pointer chains
GuardBases ==
    { T("string"), T("int"), T("float64"), T("bool"), T("struct"),
      SliceT(T("string")), MapT(T("string"), T("string")), T("interface") }

\* the rules of the field: some of required, notnil and email
GuardRules ==
    { <<>>, <<grule("email", <<>>, "")>>,
      <<grule("required", <<>>, "")>>, <<grule("notnil", <<>>, "")>>,
      <<grule("required", <<>>, ""), grule("email", <<>>, "")>>,
      <<grule("required", <<>>, ""), grule("notnil", <<>>, "")>> }

GuardInputs ==
    [type : {PtrN(n, b) : n \in 0..MaxPtrDepth, b \in GuardBases}, rules : GuardRules]

Init_NilGuard ==
    /\ AnalysisInit
    /\ GeneratorInit
    /\ cfgRules = ruleSpecMap
    /\ added = NoAdd
    /\ resolved = NoLookup
    /\ fin \in GuardInputs
    /\ fout = NotApplied
    /\ tag = <<>>
    /\ parsed = NotCalled

\* the expression of the root field F
guardExpr == SelectorExpr(recv, Ident("F"))

\* the first steps of buildVarCode for a root field F of type fin.type
BuildNilGuard ==
    /\ ~fout.called
    /\ LET fd == gfld("F", fin.type, fin.rules, <<>>)
           g == target1(<<fd>>, <<>>, <<>>, <<>>)
           code == buildVarCodeNilGuard(
                       splitRules(newVarcode(fin.type, guardExpr, fd), fin.rules))
       IN  fout' = Applied(buildVarCodeNotnil(g,
                               buildVarCodeRequired(g, [code |-> code, file |-> NewFile])).code)
    /\ UNCHANGED <<cfgRules, added, resolved, fin, anVars, tagVars, genVars>>

Next_NilGuard == BuildNilGuard

Spec_NilGuard == Init_NilGuard /\ [][Next_NilGuard]_vars

RECURSIVE ptrDepth(_)
ptrDepth(t) == IF t.Kind = "ptr" THEN 1 + ptrDepth(t.Elem[1]) ELSE 0

\* x under k indirections
RECURSIVE Indirections(_, _)
Indirections(x, k) ==
    IF k = 0 THEN x ELSE PointerIndirectionExpr(Indirections(x, k - 1))

\* the operands of a chain e1 op e2 op ... that associates to the left
RECURSIVE operands(_, _)
operands(e, op) ==
    IF e.t = "BinaryExpr" /\ e.Op = op THEN Append(operands(e.X, op), e.Y) ELSE <<e>>

hasRule(rules, name) == \E i \in 1..Len(rules) : rules[i].Name = name

-----------------------------------------------------------------------------
(* The options of one rule: the text of a rule is handed to                *)
(* parseIsTagElem and, as the value of the `is` tag, to parseRuleTag.      *)

\* the options: "", 4, -1.5, .5, 1.5, -0, +5, 007, true, x, "123", "true",
\* "a:b", &F, @c, #k
OptionTokens ==
    {
      <<>>, <<"4">>, <<"-", "1", ".", "5">>,
      <<".", "5">>, <<"1", ".", "5">>, <<"-", "0">>,
      <<"+", "5">>, <<"0", "0", "7">>, <<"t", "r", "u", "e">>,
      <<"x">>, <<"\"", "1", "2", "3", "\"">>, <<"\"", "t", "r", "u", "e", "\"">>,
      <<"\"", "a", ":", "b", "\"">>, <<"&", "F">>, <<"@", "c">>,
      <<"#", "k">>
    }

\* Most options one rule has.
MaxOpts == 2

OptionInputs == [opts : UNION {[1..n -> OptionTokens] : n \in 0..MaxOpts}]

\* the text name:o1:...:on
RECURSIVE RuleText(_, _)
RuleText(name, opts) ==
    IF opts = <<>> THEN name
    ELSE RuleText(name \o <<":">> \o Head(opts), Tail(opts))

Init_Options ==
    /\ AnalysisInit
    /\ GeneratorInit
    /\ cfgRules = ruleSpecMap
    /\ added = NoAdd
    /\ resolved = NoLookup
    /\ fin \in OptionInputs
    /\ fout = NotApplied
    /\ tag = RuleText(<<"l", "e", "n">>, fin.opts)
    /\ parsed = NotCalled

\* the call parseIsTagElem(tag)
ParseIsTagElem ==
    /\ ~fout.called
    /\ fout' = Applied(parseIsTagElem(tag))
    /\ UNCHANGED <<cfgRules, added, resolved, fin, anVars, tagVars, genVars>>

Next_Options ==
    \/ ParseIsTagElem
    \/ ParseRuleTag

Spec_Options == Init_Options /\ [][Next_Options]_vars

startsWith(o, cs) == Len(o) > 0 /\ o[1] \in cs
quoted(o) == Len(o) > 1 /\ o[1] = "\"" /\ o[Len(o)] = "\""
bare(o) == ~startsWith(o, {"&", "@", "#", "\""})

\* the options that stand for an argument
argTokens(opts) == SelectSeq(opts, LAMBDA o : ~startsWith(o, {"@", "#"}))

\* the arguments parseRuleTag found for the one rule of the tag
tagRuleOptions == parsed.tn[1].Rules[1].Options

\* args holds one argument per argument option, an empty one for ""
argPerToken(args, opts) ==
    /\ Len(args) = Len(argTokens(opts))
    /\ \A i \in 1..Len(args) : argTokens(opts)[i] = <<>> => args[i].Value = <<>>

\* C15 (as stated): the rule text name:o1:...:on yields one argument per
\* option, the options that start with @ or # excepted, and an empty option
\* yields an empty argument; so there is an empty last argument exactly when
\* the text ends in ':'.
C15_ArgPerToken ==
    /\ fout.called => argPerToken(fout.v.Args, fin.opts)
    /\ parsed.called =>
          /\ ~parsed.panic
          /\ Len(parsed.tn[1].Rules) = 1
          /\ argPerToken(tagRuleOptions, fin.opts)

\* ^(0|-?[1-9][0-9]*)$
statedInt(o) ==
    \/ o = <<"0">>
    \/ IsPosInt(o)
    \/ Len(o) > 1 /\ o[1] = "-" /\ IsPosInt(Tail(o))

\* ^-?(0|[1-9][0-9]*)?\.[0-9]+$
statedFloat(o) ==
    LET u == IF Len(o) > 0 /\ o[1] = "-" THEN Tail(o) ELSE o
        d == IndexByte(u, ".")
    IN  /\ d > -1
        /\ Len(From(u, d + 1)) > 0 /\ AllDigits(From(u, d + 1))
        /\ (Sub(u, 0, d) = <<>> \/ Sub(u, 0, d) = <<"0">> \/ IsPosInt(Sub(u, 0, d)))

statedType(o) ==
    IF o = <<>> THEN ArgTypeUnknown
    ELSE IF statedInt(o) THEN ArgTypeInt
    ELSE IF statedFloat(o) THEN ArgTypeFloat
    ELSE IF rxBool(o) THEN ArgTypeBool
    ELSE ArgTypeString

\* the rule's options are all bare and each of them gave an argument
bareAligned(args) ==
    /\ \A i \in 1..Len(fin.opts) : bare(fin.opts[i])
    /\ Len(args) = Len(fin.opts)

\* C16 (as stated): a bare argument is an int if it matches
\* ^(0|-?[1-9][0-9]*)$, else a float if it matches
\* ^-?(0|[1-9][0-9]*)?\.[0-9]+$, else a bool if it is true or false, else a
\* string; an empty argument has the unknown type.
C16_BareTypes ==
    /\ (fout.called /\ bareAligned(fout.v.Args)) =>
          \A i \in 1..Len(fin.opts) : fout.v.Args[i].Type = statedType(fin.opts[i])
    /\ (parsed.called /\ ~parsed.panic /\ Len(parsed.tn[1].Rules) = 1
            /\ bareAligned(tagRuleOptions)) =>
          \A i \in 1..Len(fin.opts) : tagRuleOptions[i].Type = statedType(fin.opts[i])

\* the text after the prefix of the last option that starts with c, "" if
\* there is none
RECURSIVE lastPrefixed(_, _)
lastPrefixed(opts, c) ==
    IF opts = <<>> THEN <<>>
    ELSE IF startsWith(opts[Len(opts)], {c}) THEN Tail(opts[Len(opts)])
    ELSE lastPrefixed(SubSeq(opts, 1, Len(opts) - 1), c)

\* the arguments of the & options and of the quoted options
prefixedArgs(args, opts) ==
    /\ Len(args) = Len(argTokens(opts))
    /\ \A i \in 1..Len(args) :
          LET o == argTokens(opts)[i] IN
          /\ startsWith(o, {"&"}) => args[i] = [Type |-> ArgTypeField, Value |-> Tail(o)]
          /\ quoted(o) =>
               args[i] = [Type |-> ArgTypeString, Value |-> SubSeq(o, 2, Len(o) - 1)]

noEmptyOption == \A i \in 1..Len(fin.opts) : fin.opts[i] # <<>>

\* C17 (as stated): an option &x is a field-reference argument x, an
\* option @x sets the context to x and #x the set-key to x, neither adding
\* an argument, and a quoted option is a string argument without its quotes,
\* whatever is between them.
C17_Prefixes ==
    /\ (fout.called /\ noEmptyOption) =>
          /\ prefixedArgs(fout.v.Args, fin.opts)
          /\ fout.v.Context = lastPrefixed(fin.opts, "@")
          /\ fout.v.SetKey = lastPrefixed(fin.opts, "#")
    /\ (parsed.called /\ noEmptyOption) =>
          /\ ~parsed.panic
          /\ Len(parsed.tn[1].Rules) = 1
          /\ prefixedArgs(tagRuleOptions, fin.opts)
          /\ parsed.tn[1].Rules[1].Context = lastPrefixed(fin.opts, "@")

-----------------------------------------------------------------------------
(* A literal rule argument against a declared parameter type:              *)
(* canConvertRuleArg.                                                      *)

\* the declared parameter types: every basic kind, unnamed and named, and
\* the non-basic kinds
ArgTargets ==
    {T(k) : k \in BasicKinds} \cup {NamedT(k, "N") : k \in BasicKinds}
    \cup { EmptyInterfaceT, T("interface"), T("struct"),
           SliceT(T("uint8")), SliceT(T("int32")), SliceT(T("string")),
           SliceT(NamedT("uint8", "B")),
           [SliceT(T("uint8")) EXCEPT !.Name = "Bs", !.PkgPath = "x"],
           PtrT(T("int")), PtrT(T("string")), MapT(T("string"), T("int")) }

\* the options whose literals are the arguments
LiteralTokens ==
    { <<"0">>, <<"4">>, <<"-", "1">>, <<"1", ".", "5">>, <<"-", "0", ".", "5">>,
      <<".", "5">>, <<"t", "r", "u", "e">>, <<"f", "a", "l", "s", "e">>,
      <<"x">>, <<"-", "x">>, <<"\"", "4", "\"">>, <<"\"", "\"">> }

\* the arguments parseIsTagElem yields for an empty option and for the
\* tokens
LiteralArgs == {EmptyArg} \cup {literalArg(o) : o \in LiteralTokens}

RuleArgInputs == [dst : ArgTargets, src : LiteralArgs]

Init_RuleArg ==
    /\ AnalysisInit
    /\ GeneratorInit
    /\ cfgRules = ruleSpecMap
    /\ added = NoAdd
    /\ resolved = NoLookup
    /\ fin \in RuleArgInputs
    /\ fout = NotApplied
    /\ tag = <<>>
    /\ parsed = NotCalled

\* the call canConvertRuleArg(a, fin.dst, fin.src)
CanConvertRuleArg ==
    /\ ~fout.called
    /\ fout' = Applied(canConvertRuleArg(fin.dst, fin.src))
    /\ UNCHANGED <<cfgRules, added, resolved, fin, anVars, tagVars, genVars>>

Next_RuleArg == CanConvertRuleArg

Spec_RuleArg == Init_RuleArg /\ [][Next_RuleArg]_vars

signedTargets == {"int", "int8", "int16", "int32", "int64"}
unsignedTargets == {"uint", "uint8", "uint16", "uint32", "uint64", "uintptr"}
floatTargets == {"float32", "float64"}

\* the target is []byte or []rune
byteOrRuneTarget(d) ==
    d.Kind = "slice" /\ d.Elem[1].Name = "" /\ d.Elem[1].Kind \in {"uint8", "int32"}

leadingMinus(s) == Len(s.Value) > 0 /\ s.Value[1] = "-"

-----------------------------------------------------------------------------
(* The argument count of a function rule: typeCheckRuleFunc.               *)

\* Most parameters of a rule function, the field's parameter included.
MaxParams == 3

\* Most arguments of one rule.
MaxArgs == 3

RuleFuncBoolNot == "not"
RuleFuncBoolAnd == "and"
RuleFuncBoolOr == "or"

ParamTypes == {T("string"), T("int")}

\* the parameter lists of custom functions: the last parameter of a
\* variadic function is a slice
ParamLists(variadic) ==
    UNION {{IF variadic THEN [ps EXCEPT ![n] = SliceT(@)] ELSE ps :
               ps \in [1..n -> ParamTypes]} : n \in 1..MaxParams}

\* a function of the predicate registry with a connective: it takes the
\* field and one argument, and the rule is lowered to p(x,a) OP p(x,b) ...
chainedRuleFunc(conn, vtype, atype) ==
    [spec |-> "RuleFunc", FuncName |-> "P", PkgPath |-> "github.com/frk/isvalid",
     ArgTypes |-> <<vtype, atype>>, IsVariadic |-> FALSE,
     BoolConn |-> conn, iscustom |-> FALSE]

RuleFuncs ==
    {customRuleFunc(Func("F", ps, <<T("bool")>>, FALSE)) : ps \in ParamLists(FALSE)}
    \cup {customRuleFunc(Func("F", ps, <<T("bool")>>, TRUE)) : ps \in ParamLists(TRUE)}
    \cup {chainedRuleFunc(c, v, a) :
        c \in {RuleFuncBoolNot, RuleFuncBoolAnd, RuleFuncBoolOr},
        v \in ParamTypes, a \in ParamTypes}

\* the arguments of the rule: of unknown type, an int and a string
CountArgs == {EmptyArg, literalArg(<<"4">>), literalArg(<<"x">>)}

RuleFuncInputs ==
    [rf : RuleFuncs,
     args : UNION {[1..n -> CountArgs] : n \in 0..MaxArgs},
     type : {T("string"), PtrT(T("int"))}]

Init_RuleFunc ==
    /\ AnalysisInit
    /\ GeneratorInit
    /\ cfgRules = ruleSpecMap
    /\ added = NoAdd
    /\ resolved = NoLookup
    /\ fin \in RuleFuncInputs
    /\ fout = NotApplied
    /\ tag = <<>>
    /\ parsed = NotCalled

\* the call typeCheckRuleFunc(a, r, fin.rf, fin.type, f) for a rule r with
\* the arguments fin.args
TypeCheckRuleFunc ==
    /\ ~fout.called
    /\ fout' = Applied(typeCheckRuleFunc([NewRule EXCEPT !.Name = <<"f">>,
                                                          !.Args = fin.args],
                                          fin.rf, fin.type))
    /\ UNCHANGED <<cfgRules, added, resolved, fin, anVars, tagVars, genVars>>

Next_RuleFunc == TypeCheckRuleFunc

Spec_RuleFunc == Init_RuleFunc /\ [][Next_RuleFunc]_vars

\* the declared parameters after the field's parameter
paramsAfterField(rf) == Len(rf.ArgTypes) - 1

\* the non-variadic parameters after the field's parameter
fixedAfterField(rf) ==
    IF Len(rf.ArgTypes) = 1 THEN 0 ELSE Len(rf.ArgTypes) - 2

countPasses(rf, n) ==
    IF rf.BoolConn # RuleFuncBoolNone THEN n >= 1
    ELSE IF rf.IsVariadic THEN n >= fixedAfterField(rf)
    ELSE n = paramsAfterField(rf)

\* C19: a function rule passes the argument-count check exactly when the
\* number of its arguments equals the number of parameters after the
\* field's (no connective, not variadic), is at least the number of
\* non-variadic parameters after the field's (variadic, also when the field
\* is the variadic parameter), or is at least one (connective); otherwise
\* the result is the rule-arg-count diagnostic, and the conversion check of
\* the arguments never indexes past the rule's arguments.
C19_ArgCount ==
    fout.called =>
        /\ (fout.v = errRuleFuncRuleArgCount) <=> ~countPasses(fin.rf, Len(fin.args))
        /\ fout.v # Panic

\* a variadic function whose only parameter takes the field passed the
\* count check with no argument
C19_Witness ==
    /\ fout.called
    /\ fin.rf.IsVariadic /\ Len(fin.rf.ArgTypes) = 1 /\ fin.args = <<>>
    /\ fout.v # errRuleFuncRuleArgCount

-----------------------------------------------------------------------------
(* Type.Equals and canConvert over pairs of type descriptors.              *)

\* Longest array of the type descriptors.
MaxArrayLen == 2

ArrayT(n, e) == [T("array") EXCEPT !.ArrayLen = n, !.Elem = <<e>>]

\* a named type: analyzeType keeps the kind and the element of the
\* underlying type
Named(t, name, pkg) == [t EXCEPT !.Name = name, !.PkgPath = pkg]

\* the basic, interface and struct types, unnamed and named
Types0 ==
    { T("bool"), T("int"), T("int32"), T("uint8"), T("float64"), T("string"),
      Named(T("string"), "S", "x"), Named(T("string"), "S", "y"),
      Named(T("int"), "I", "x"), Named(T("uint8"), "B", "x"),
      EmptyInterfaceT, T("interface"), Named(EmptyInterfaceT, "E", "x"),
      T("struct"), Named(T("struct"), "V", "x"), Named(T("struct"), "W", "x") }

ElemTypes == {T("uint8"), T("int32"), T("string"), Named(T("uint8"), "B", "x")}

\* the types with elements, and some of them named
Types1 ==
    {SliceT(e) : e \in ElemTypes} \cup {PtrT(e) : e \in ElemTypes}
    \cup {ArrayT(n, e) : n \in 1..MaxArrayLen, e \in {T("uint8"), T("string")}}
    \cup {MapT(k, e) : k \in {T("string"), T("int")}, e \in {T("string"), T("uint8")}}
    \cup { SliceT(SliceT(T("uint8"))), PtrT(PtrT(T("string"))),
           Named(SliceT(T("uint8")), "Bs", "x"), Named(SliceT(T("string")), "Bs", "x"),
           Named(MapT(T("string"), T("string")), "M", "x") }

TypeDescriptors == Types0 \cup Types1

TypePairInputs == [op : {"equals", "convert"}, t : TypeDescriptors, u : TypeDescriptors]

Init_Types ==
    /\ AnalysisInit
    /\ GeneratorInit
    /\ cfgRules = ruleSpecMap
    /\ added = NoAdd
    /\ resolved = NoLookup
    /\ fin \in TypePairInputs
    /\ fout = NotApplied
    /\ tag = <<>>
    /\ parsed = NotCalled

\* the calls fin.t.Equals(fin.u) and fin.u.Equals(fin.t)
TypeEquals ==
    /\ ~fout.called
    /\ fin.op = "equals"
    /\ fout' = Applied([tu |-> Equals(fin.t, fin.u), ut |-> Equals(fin.u, fin.t)])
    /\ UNCHANGED <<cfgRules, added, resolved, fin, anVars, tagVars, genVars>>

\* the call canConvert(fin.t, fin.u): fin.t is dst, fin.u is src
CanConvert ==
    /\ ~fout.called
    /\ fin.op = "convert"
    /\ fout' = Applied([conv |-> canConvert(fin.t, fin.u)])
    /\ UNCHANGED <<cfgRules, added, resolved, fin, anVars, tagVars, genVars>>

Next_Types ==
    \/ TypeEquals
    \/ CanConvert

Spec_Types == Init_Types /\ [][Next_Types]_vars

isString(t) == t = T("string")
isBytes(t) == t = SliceT(T("uint8"))
isRunes(t) == t = SliceT(T("int32"))

\* C20: Equals(t, u) = Equals(u, t) for all type descriptors; canConvert
\* accepts string to []byte, []byte to string, string to []rune and []rune
\* to string; and canConvert(dst, src) is true for every src when dst is
\* the empty interface.
C20_EqualsSymmetric ==
    /\ (fout.called /\ fin.op = "equals") => fout.v.tu = fout.v.ut
    /\ (fout.called /\ fin.op = "convert") =>
          /\ (isString(fin.u) /\ (isBytes(fin.t) \/ isRunes(fin.t))) => fout.v.conv
          /\ (isString(fin.t) /\ (isBytes(fin.u) \/ isRunes(fin.u))) => fout.v.conv
          /\ fin.t.IsEmptyInterface => fout.v.conv

\* a named and an unnamed type of one kind were compared, both ways
C20_Witness ==
    /\ fout.called /\ fin.op = "equals"
    /\ fin.t = T("int") /\ fin.u = Named(T("int"), "I", "x")
    /\ ~fout.v.tu /\ ~fout.v.ut

-----------------------------------------------------------------------------
(* The import set of one file: addimport.                                  *)

\* Most imports of one file.
MaxImports == 4

\* package paths: three packages named x, two named x1, one named y
ImportPaths ==
    { << <<"a">>, <<"x">> >>, << <<"b">>, <<"x">> >>, << <<"c">>, <<"x">> >>,
      << <<"c">>, <<"x", "1">> >>, << <<"d">>, <<"x", "1">> >>, << <<"y">> >> }

Init_Imports ==
    /\ AnalysisInit
    /\ GeneratorInit
    /\ cfgRules = ruleSpecMap
    /\ added = NoAdd
    /\ resolved = NoLookup
    /\ fin = <<>>
    /\ fout = NotApplied
    /\ tag = <<>>
    /\ parsed = NotCalled

hasImport(f, path) == \E i \in 1..Len(f.impset) : f.impset[i].path = path

\* the call addimport(file, path)
AddImport(path) ==
    /\ hasImport(file, path) \/ Len(file.impset) < MaxImports
    /\ LET ai == addimport(file, path) IN
       /\ file' = ai.file
       /\ fout' = Applied([path |-> path, imp |-> ai.imp])
    /\ UNCHANGED <<gpc, target, ctx, ip, reported, result>>
    /\ UNCHANGED <<cfgRules, added, resolved, fin, anVars, tagVars>>

Next_Imports == \E path \in ImportPaths : AddImport(path)

Spec_Imports == Init_Imports /\ [][Next_Imports]_vars

importPathsDistinct ==
    \A i, j \in 1..Len(file.impset) :
        i # j => file.impset[i].path # file.impset[j].path

importNamesDistinct ==
    \A i, j \in 1..Len(file.impset) :
        i # j => file.impset[i].name # file.impset[j].name

\* a call with a path of the set yields the entry of the set and leaves the
\* paths and the names of the set as they were
importKept ==
    \A path \in ImportPaths :
        (AddImport(path) /\ hasImport(file, path)) =>
            /\ Len(file'.impset) = Len(file.impset)
            /\ \A i \in 1..Len(file.impset) :
                  /\ file'.impset[i].path = file.impset[i].path
                  /\ file'.impset[i].name = file.impset[i].name
            /\ \E i \in 1..Len(file.impset) :
                  /\ file.impset[i].path = path
                  /\ fout'.v.imp.name = file.impset[i].name

\* C30 (as stated): after any sequence of addimport calls the import set
\* has pairwise distinct paths and pairwise distinct package names, and a
\* call with a path already in the set returns the existing entry without
\* adding to the set or changing any name.
C30_ImportSet ==
    /\ [](importPathsDistinct /\ importNamesDistinct)
    /\ [][importKept]_vars


-----------------------------------------------------------------------------
(* The if statement of one rule: newRuleIfStmt applied to a field and one  *)
(* rule of its tag, for a validator without an error handler.              *)

\* the largest number of arguments of a rule
MaxRuleArgs == 3

\* the rule types of the basic rules and of the functions with a logical
\* connective, next to those of genRuleTypeMap
chainFunc(name, lop) ==
    [kind |-> "Func", FuncName |-> name, PkgPath |-> isvalidPkg,
     ArgTypes |-> <<T("string"), T("string")>>, IsVariadic |-> FALSE, LOp |-> lop,
     UseRawString |-> FALSE, IsCustom |-> FALSE]
customFunc(name, argType) ==
    [kind |-> "Func", FuncName |-> name, PkgPath |-> <<<<"x">>, <<"fn">>>>,
     ArgTypes |-> <<T("string"), argType>>, IsVariadic |-> FALSE, LOp |-> LogicalNone,
     UseRawString |-> FALSE, IsCustom |-> TRUE]
BasicRuleNames == {"eq", "ne", "gt", "lt", "gte", "lte", "min", "max", "rng", "len"}
ruleIfTypeMap ==
    [n \in BasicRuleNames |-> [kind |-> "Basic"]]
        @@ [prefix |-> chainFunc("HasPrefix", LogicalOr),
            phone |-> [chainFunc("Phone", LogicalNone) EXCEPT
                          !.ArgTypes = <<T("string"), SliceT(T("string"))>>,
                          !.IsVariadic = TRUE],
            notin |-> chainFunc("In", LogicalNot),
            all |-> chainFunc("Has", LogicalAnd),
            fint |-> customFunc("Fint", T("int")),
            fany |-> customFunc("Fany", EmptyInterfaceT)]
        @@ genRuleTypeMap

\* the fields that the arguments of the rules refer to (Info.SelectorMap)
refField(name, typ) == <<[Name |-> name, Type |-> typ]>>
ruleIfSelectorMap ==
    [Max |-> refField("Max", T("int")), Lim |-> refField("Lim", T("int64")),
     S |-> refField("S", T("string")), Any |-> refField("Any", EmptyInterfaceT)]
ruleIfInfo == [SelectorMap |-> ruleIfSelectorMap, RuleTypeMap |-> ruleIfTypeMap]

\* the generator of the validator struct that holds the field fd0
ruleIfGen(fd0) == [target1(<<fd0>>, <<>>, <<>>, <<>>) EXCEPT !.info = ruleIfInfo]

intArg(v) == [Type |-> ArgTypeInt, Value |-> v]
fieldArg(v) == [Type |-> ArgTypeField, Value |-> v]
emptyArg == [Type |-> ArgTypeUnknown, Value |-> ""]

\* the argument lists of 1..n arguments drawn from S
ArgLists(S, n) == UNION {[1..k -> S] : k \in 1..n}

IntLits == {intArg("1"), intArg("2"), intArg("3")}
IntRefs == {fieldArg("Max"), fieldArg("Lim")}
StrArgs == {strArg("a"), strArg("%v"), fieldArg("S")}

ruleInput(fd0, name, args) == [field |-> fd0, rule |-> grule(name, args, "")]
fldS == gfld("F", T("string"), <<>>, <<>>)
fldN == gfld("N", T("int"), <<>>, <<>>)

\* len with one argument, a lower bound, an upper bound, or both
LenInputs ==
    {ruleInput(fldS, "len", args) :
        args \in {<<a>> : a \in IntLits \cup IntRefs}
                 \cup {<<a, emptyArg>> : a \in IntLits \cup IntRefs}
                 \cup {<<emptyArg, b>> : b \in IntLits \cup IntRefs}
                 \cup {<<a, b>> : a \in IntLits \cup IntRefs, b \in IntLits \cup IntRefs}}
\* the comparisons of an int field
CmpInputs ==
    {ruleInput(fldN, n, args) : n \in {"eq", "ne"}, args \in ArgLists(IntLits, MaxRuleArgs)}
        \cup {ruleInput(fldN, n, <<a>>) :
                n \in {"eq", "ne", "gt", "lt", "gte", "lte", "min", "max"},
                a \in IntLits \cup IntRefs}
        \cup {ruleInput(fldN, "rng", <<a, b>>) :
                a \in IntLits \cup IntRefs, b \in IntLits \cup IntRefs}
\* the functions with a connective, on a string field
ChainInputs ==
    {ruleInput(fldS, n, args) :
        n \in {"prefix", "notin", "all"}, args \in ArgLists(StrArgs, MaxRuleArgs)}
\* functions whose second parameter is an int or an empty interface
FuncInputs ==
    {ruleInput(fldS, "fint", <<a>>) : a \in IntRefs}
        \cup {ruleInput(fldS, "fany", <<a>>) :
                a \in IntRefs \cup {fieldArg("S"), fieldArg("Any")}}
\* rules whose message lists literals, references and empty arguments
MsgInputs ==
    {ruleInput(fldS, "eq", args) : args \in ArgLists(StrArgs \cup {emptyArg}, MaxRuleArgs)}
        \cup {ruleInput(fldN, "eq", args) :
                args \in ArgLists({intArg("1"), emptyArg, fieldArg("Max")}, 2)}
        \cup {ruleInput(fldS, "email", <<>>), ruleInput(fldS, "phone", <<>>),
              ruleInput(fldS, "phone", <<strArg("us")>>)}
RuleIfInputs == LenInputs \cup CmpInputs \cup ChainInputs \cup FuncInputs \cup MsgInputs

Init_RuleIf ==
    /\ AnalysisInit
    /\ GeneratorInit
    /\ cfgRules = ruleSpecMap
    /\ added = NoAdd
    /\ resolved = NoLookup
    /\ fin \in RuleIfInputs
    /\ fout = NotApplied
    /\ tag = <<>>
    /\ parsed = NotCalled

\* the varcode of the field fd0 of the validator
fieldVarcode(fd0) == newVarcode(fd0.Type, SelectorExpr(recv, Ident(fd0.Name)), fd0)

\* the rule's if statement is built, and the file has the imports it needs
NewRuleIfStmt ==
    /\ ~fout.called
    /\ LET ri == newRuleIfStmt(ruleIfGen(fin.field), file, fieldVarcode(fin.field), fin.rule)
       IN  /\ fout' = Applied(ri.x)
           /\ file' = ri.file
    /\ UNCHANGED <<gpc, target, ctx, ip, reported, result>>
    /\ UNCHANGED <<cfgRules, added, resolved, fin, anVars, tagVars>>

Next_RuleIf == NewRuleIfStmt
Spec_RuleIf == Init_RuleIf /\ [][Next_RuleIf]_vars

\* the call that makes the error of the if statement ifs, its text and the
\* expressions that follow the text
errCall(ifs) == ifs.Body[1].Result
errText(ifs) == errCall(ifs).Args[1].Value
errRefs(ifs) == Tail(errCall(ifs).Args)

\* x is the operand that the argument a stands for: the literal, or the
\* selector of the referenced field, as it is or converted
isOperand(x, a) ==
    IF a.Type = ArgTypeField
    THEN \/ x.t = "SelectorExpr" /\ x = fieldSelector(ruleIfGen(fin.field), a.Value)
         \/ /\ x.t = "CallExpr"
            /\ x.Args = <<fieldSelector(ruleIfGen(fin.field), a.Value)>>
    ELSE x.t = "ValueLit" /\ x.Value = a.Value

\* x compares len(v) with the argument a by op
isLenCmp(x, op, a) ==
    /\ x.t = "BinaryExpr"
    /\ x.Op = op
    /\ x.X = CallLenExpr(fieldVarcode(fin.field).vexpr)
    /\ isOperand(x.Y, a)

\* the part of the message for the argument a
msgPart(a) ==
    IF a.Type = ArgTypeField THEN [lit |-> "%v", quoted |-> FALSE]
    ELSE [lit |-> a.Value, quoted |-> a.Type = ArgTypeString]

\* the message is the key, the phrase, the listed arguments and the suffix
isMessage(ifs, phrase, args, sep, suffix) ==
    errText(ifs) = [key |-> fin.field.Key, text |-> phrase,
                    args |-> [i \in 1..Len(args) |-> msgPart(args[i])],
                    argSep |-> sep, suffix |-> suffix]

\* C21: the condition and the phrase of a len rule are chosen together: one
\* argument gives len(v) != a and "must be of length: a", a lower bound
\* gives len(v) < a and "at least", an upper bound gives len(v) > b and "at
\* most", both give len(v) < a || len(v) > b and "between: a and b
\* (inclusive)".
C21_LenForms ==
    (fout.called /\ fin.rule.Name = "len") =>
        LET args == fin.rule.Args
            ifs == fout.v
        IN  /\ ifs.t = "IfStmt"
            /\ Len(ifs.Cond) = 1
            /\ IF Len(args) = 1
               THEN /\ isLenCmp(ifs.Cond[1], BinaryNeq, args[1])
                    /\ isMessage(ifs, "must be of length", args, "", "")
               ELSE IF args[2] = emptyArg
               THEN /\ isLenCmp(ifs.Cond[1], BinaryLss, args[1])
                    /\ isMessage(ifs, "must be of length at least", <<args[1]>>, "", "")
               ELSE IF args[1] = emptyArg
               THEN /\ isLenCmp(ifs.Cond[1], BinaryGtr, args[2])
                    /\ isMessage(ifs, "must be of length at most", <<args[2]>>, "", "")
               ELSE /\ ifs.Cond[1].t = "ParenExpr"
                    /\ ifs.Cond[1].X.t = "BinaryExpr"
                    /\ ifs.Cond[1].X.Op = BinaryLOr
                    /\ isLenCmp(ifs.Cond[1].X.X, BinaryLss, args[1])
                    /\ isLenCmp(ifs.Cond[1].X.Y, BinaryGtr, args[2])
                    /\ isMessage(ifs, "must be of length between", args, " and ",
                                 "(inclusive)")

\* a len rule with both bounds has been built
C21_Witness ==
    /\ fout.called
    /\ fin.rule.Name = "len"
    /\ Len(fin.rule.Args) = 2
    /\ emptyArg \notin {fin.rule.Args[1], fin.rule.Args[2]}
    /\ fout.v.Cond[1].t = "ParenExpr"


\* the values of the field and of the referenced fields at run time
CmpValues == 0..4

\* the number that a literal of the rules above denotes
intOf(lit) ==
    CASE lit = "0" -> 0 [] lit = "1" -> 1 [] lit = "2" -> 2 [] lit = "3" -> 3 [] lit = "4" -> 4
      [] lit = "8" -> 8

\* the value of the operand x, env gives the values of the struct's fields;
\* a conversion between integer types keeps these values
RECURSIVE cmpValue(_, _)
cmpValue(x, env) ==
    CASE x.t \in {"ValueLit", "IntLit"} -> intOf(x.Value)
      [] x.t = "SelectorExpr" -> env[x.Sel.Name]
      [] x.t = "CallExpr" -> cmpValue(x.Args[1], env)

\* the truth of the condition x
RECURSIVE cmpHolds(_, _)
cmpHolds(x, env) ==
    CASE x.t = "ParenExpr" -> cmpHolds(x.X, env)
      [] x.t = "BinaryExpr" /\ x.Op = BinaryLAnd -> cmpHolds(x.X, env) /\ cmpHolds(x.Y, env)
      [] x.t = "BinaryExpr" /\ x.Op = BinaryLOr -> cmpHolds(x.X, env) \/ cmpHolds(x.Y, env)
      [] x.t = "BinaryExpr" /\ x.Op \notin {BinaryLAnd, BinaryLOr} ->
           LET l == cmpValue(x.X, env)
               r == cmpValue(x.Y, env)
           IN  CASE x.Op = BinaryEql -> l = r
                 [] x.Op = BinaryNeq -> l # r
                 [] x.Op = BinaryLss -> l < r
                 [] x.Op = BinaryGtr -> l > r
                 [] x.Op = BinaryLeq -> l <= r
                 [] x.Op = BinaryGeq -> l >= r

\* the value of the argument a: a literal, the referenced field, or zero
\* for the empty argument of a numeric field
argValue(a, env) ==
    IF a.Type = ArgTypeField THEN env[a.Value]
    ELSE IF a = emptyArg THEN 0 ELSE intOf(a.Value)

\* the value env.N violates the rule r
violates(r, env) ==
    LET v == env.N
        a(i) == argValue(r.Args[i], env)
        n == Len(r.Args)
    IN  CASE r.Name = "eq" -> \A i \in 1..n : v # a(i)
          [] r.Name = "ne" -> \E i \in 1..n : v = a(i)
          [] r.Name = "gt" -> v <= a(1)
          [] r.Name = "lt" -> v >= a(1)
          [] r.Name \in {"gte", "min"} -> v < a(1)
          [] r.Name \in {"lte", "max"} -> v > a(1)
          [] r.Name = "rng" -> v < a(1) \/ v > a(2)

CmpRuleNames == {"eq", "ne", "gt", "lt", "gte", "lte", "min", "max", "rng"}

RECURSIVE chainTerms(_, _)
chainTerms(x, op) ==
    IF x.t = "BinaryExpr" /\ x.Op = op THEN Append(chainTerms(x.X, op), x.Y) ELSE <<x>>

\* x is the call p(v, a) of the rule's function for the string argument a
isChainCall(x, rt, a) ==
    /\ x.t = "CallExpr"
    /\ x.Fun.t = "QualifiedIdent"
    /\ x.Fun.Name = rt.FuncName
    /\ Len(x.Args) = 2
    /\ x.Args[1] = fieldVarcode(fin.field).vexpr
    /\ IF a.Type = ArgTypeField
       THEN x.Args[2] = fieldSelector(ruleIfGen(fin.field), a.Value)
       ELSE x.Args[2] = ValueLit([lit |-> a.Value, quoted |-> TRUE])

\* the truth of the terms joined by op, when the calls of the arguments in
\* sat return true
termsHold(terms, op, sat) ==
    LET val(i) == IF terms[i].t = "UnaryExpr" THEN i \notin sat ELSE i \in sat
    IN  IF op = BinaryLOr THEN \E i \in 1..Len(terms) : val(i)
        ELSE \A i \in 1..Len(terms) : val(i)

ChainRuleNames == {"prefix", "notin", "all"}

\* C25: the failure condition of a function rule with a connective has one
\* call p(v, ai) per argument, in argument order: p || ... || p in NOT mode,
\* !p || ... || !p in AND mode, !p && ... && !p in OR mode; so an OR rule
\* fails iff no argument satisfies the predicate and an AND rule fails iff
\* some argument does not.
C25_ChainConditions ==
    (fout.called /\ fin.rule.Name \in ChainRuleNames) =>
        LET rt == ruleIfTypeMap[fin.rule.Name]
            args == fin.rule.Args
            op == IF rt.LOp = LogicalOr THEN BinaryLAnd ELSE BinaryLOr
            terms == IF fout.v.Cond = <<>> THEN <<>> ELSE chainTerms(fout.v.Cond[1], op)
        IN  /\ Len(terms) = Len(args)
            /\ \A i \in 1..Len(terms) :
                  IF rt.LOp = LogicalNot THEN isChainCall(terms[i], rt, args[i])
                  ELSE /\ terms[i].t = "UnaryExpr"
                       /\ terms[i].Op = UnaryNot
                       /\ isChainCall(terms[i].X, rt, args[i])
            /\ \A sat \in SUBSET (1..Len(args)) :
                  termsHold(terms, op, sat) <=>
                      CASE rt.LOp = LogicalNot -> sat # {}
                        [] rt.LOp = LogicalAnd -> sat # 1..Len(args)
                        [] rt.LOp = LogicalOr -> sat = {}

\* an OR rule with the most arguments, one of them a field reference, has
\* been built
C25_Witness ==
    /\ fout.called
    /\ fin.rule.Name = "prefix"
    /\ Len(fin.rule.Args) = MaxRuleArgs
    /\ fieldArg("S") \in {fin.rule.Args[i] : i \in 1..MaxRuleArgs}
    /\ fout.v.Cond[1].t = "BinaryExpr"
    /\ fout.v.Cond[1].Op = BinaryLAnd


\* the number of %v in the text of a message; the quotes around a string
\* literal leave its characters as they are
verbCount(text) == Cardinality({i \in 1..Len(text.args) : text.args[i].lit = "%v"})

\* the selectors of the field references among args, in order
RECURSIVE refSelectors(_)
refSelectors(args) ==
    IF args = <<>> THEN <<>>
    ELSE IF Head(args).Type = ArgTypeField
    THEN <<fieldSelector(ruleIfGen(fin.field), Head(args).Value)>> \o refSelectors(Tail(args))
    ELSE refSelectors(Tail(args))

\* the parts of the message for args: references as %v, string literals
\* quoted, an empty argument as 0 for a numeric field and dropped otherwise
RECURSIVE msgParts(_, _)
msgParts(args, numeric) ==
    IF args = <<>> THEN <<>>
    ELSE IF Head(args) = emptyArg
    THEN (IF numeric THEN <<[lit |-> "0", quoted |-> FALSE]>> ELSE <<>>)
            \o msgParts(Tail(args), numeric)
    ELSE <<msgPart(Head(args))>> \o msgParts(Tail(args), numeric)

\* the rules whose message lists the arguments
ListedRuleNames == BasicRuleNames \cup ChainRuleNames

\* C27: without an error handler the error is fmt.Errorf exactly when the
\* message has a field-reference argument and errors.New otherwise; every
\* reference is a %v of the text, the number of %v equals the number of
\* selectors after the format string, in argument order; string literals
\* are quoted, an empty argument is 0 for a numeric field and dropped
\* otherwise, and the text starts with the key of the field.
C27_ErrorText ==
    (fout.called /\ fin.rule.Name \in ListedRuleNames) =>
        LET ifs == fout.v
            refs == refSelectors(fin.rule.Args)
        IN  /\ errCall(ifs).Fun =
                   IF refs # <<>> THEN QualifiedIdent("fmt", "Errorf")
                   ELSE QualifiedIdent("errors", "New")
            /\ errRefs(ifs) = refs
            /\ verbCount(errText(ifs)) = Len(errRefs(ifs))
            /\ errText(ifs).key = fin.field.Key
            /\ errText(ifs).args =
                   msgParts(fin.rule.Args, IsNumeric(PtrBase(fin.field.Type).Kind))

\* the same, but for the count of %v, which a string literal may add to
C27_ErrorTextButVerbs ==
    (fout.called /\ fin.rule.Name \in ListedRuleNames) =>
        LET ifs == fout.v
            refs == refSelectors(fin.rule.Args)
        IN  /\ errCall(ifs).Fun =
                   IF refs # <<>> THEN QualifiedIdent("fmt", "Errorf")
                   ELSE QualifiedIdent("errors", "New")
            /\ errRefs(ifs) = refs
            /\ strArg("%v") \notin {fin.rule.Args[i] : i \in 1..Len(fin.rule.Args)}
                   => verbCount(errText(ifs)) = Len(errRefs(ifs))
            /\ errText(ifs).key = fin.field.Key
            /\ errText(ifs).args =
                   msgParts(fin.rule.Args, IsNumeric(PtrBase(fin.field.Type).Kind))


\* the rules with one argument whose operand is compared with the field
UnaryCmpNames == {"eq", "ne", "gt", "lt", "gte", "lte", "min", "max"}

\* the one argument of the rule is a reference, of a function rule without
\* connective or of a comparison
oneRefArg ==
    /\ fin.rule.Name \in {"fint", "fany"} \cup UnaryCmpNames
    /\ Len(fin.rule.Args) = 1
    /\ fin.rule.Args[1].Type = ArgTypeField

\* the type that the argument must have: the declared type of the
\* parameter, or the base type of the field for a basic rule
requiredType ==
    IF fin.rule.Name \in UnaryCmpNames THEN PtrBase(fin.field.Type)
    ELSE ruleIfTypeMap[fin.rule.Name].ArgTypes[2]

\* the expression emitted for the argument
emittedArg ==
    IF fin.rule.Name \in UnaryCmpNames THEN fout.v.Cond[1].Y
    ELSE fout.v.Cond[1].X.Args[2]

\* C28: a field reference whose type differs from the type the argument
\* must have is emitted as a conversion of the selector to that required
\* type; when the types are equal, or the required type is the empty
\* interface, the selector is emitted as it is.
C28_Conversion ==
    (fout.called /\ oneRefArg) =>
        LET sel == fieldSelector(ruleIfGen(fin.field), fin.rule.Args[1].Value)
            u == Last(selectorOf(ruleIfGen(fin.field), fin.rule.Args[1].Value)).Type
            t == requiredType
        IN  IF t.IsEmptyInterface \/ Equals(t, u) THEN emittedArg = sel
            ELSE emittedArg = CallExpr(Ident(TypeString(t)), <<sel>>)

\* the selector is emitted as it is when the types are equal
C28_EqualTypes ==
    (fout.called /\ oneRefArg) =>
        LET sel == fieldSelector(ruleIfGen(fin.field), fin.rule.Args[1].Value)
            u == Last(selectorOf(ruleIfGen(fin.field), fin.rule.Args[1].Value)).Type
        IN  Equals(requiredType, u) => emittedArg = sel


-----------------------------------------------------------------------------
(* The statements assembled for one field of a validator: its own rules,   *)
(* the rules of the keys and elements of a map, slice or array, and the    *)
(* rules of the fields of a struct.                                        *)

\* the largest number of rules of a field with a basic type
MaxFieldRules == 3

\* a node of a rule tag, and a field with the rule tag tn
asmNode(rules) == [Rules |-> rules, Key |-> <<>>, Elem |-> <<>>]
asmField(name, typ, tn, fields) == [gfld(name, typ, tn.Rules, fields) EXCEPT !.RuleTag = tn]

rRequired == grule("required", <<>>, "")
rNotnil == grule("notnil", <<>>, "")
rEmail == grule("email", <<>>, "")
rLen == grule("len", <<intArg("1")>>, "")

\* the rules of a key or element node, and the node that may be absent
SubRules == {<<rEmail>>, <<rLen>>, <<rEmail, rLen>>}
OptNode == {<<>>} \cup {<<asmNode(rs)>> : rs \in SubRules}
\* the rules of the map, slice or array itself
OwnRules == {<<>>, <<rLen>>, <<rRequired>>}

MapTypes == {MapT(T("string"), T("string")), PtrT(MapT(T("string"), T("string")))}
ListTypes == {SliceT(T("string")), PtrT(SliceT(T("string"))), ArrayT(MaxArrayLen, T("string"))}

\* maps, slices and arrays with rules for their keys and elements
KeyElemFields ==
    {asmField("M", t, [Rules |-> own, Key |-> key, Elem |-> elem], <<>>) :
        t \in MapTypes, own \in OwnRules, key \in OptNode, elem \in OptNode}
    \cup {asmField("L", t, [Rules |-> own, Key |-> <<>>, Elem |-> elem], <<>>) :
            t \in ListTypes, own \in OwnRules, elem \in OptNode}

\* the sequences of 1..n distinct rules of S
RuleSeqs(S, n) ==
    {q \in UNION {[1..j -> S] : j \in 1..n} :
        \A i, j \in 1..Len(q) : i # j => q[i] # q[j]}

\* strings and pointers to strings with required, notnil and other rules
ScalarFields ==
    {asmField("F", t, asmNode(rs), <<>>) :
        t \in {T("string"), PtrT(T("string"))},
        rs \in RuleSeqs({rRequired, rNotnil, rEmail, rLen}, MaxFieldRules)}

\* structs and arrays with required or notnil, structs with sub-fields
StructFields ==
    {asmField("S", t, asmNode(rs), fs) :
        t \in {T("struct"), PtrT(T("struct"))},
        rs \in {<<>>, <<rRequired>>, <<rNotnil>>},
        fs \in {<<>>, <<asmField("G", T("string"), asmNode(<<rEmail>>), <<>>)>>,
                <<asmField("G", T("string"), asmNode(<<rEmail>>), <<>>),
                  asmField("H", T("string"), asmNode(<<rLen, rEmail>>), <<>>)>>}}

AssembleInputs == {f \in KeyElemFields \cup ScalarFields \cup StructFields : fieldContainsRules(f)}

Init_Assemble ==
    /\ AnalysisInit
    /\ GeneratorInit
    /\ cfgRules = ruleSpecMap
    /\ added = NoAdd
    /\ resolved = NoLookup
    /\ fin \in AssembleInputs
    /\ fout = NotApplied
    /\ tag = <<>>
    /\ parsed = NotCalled

\* the Validate method of the validator with the one field fin is built:
\* the varcodes are built and assembled, and the method is added to the file
AssembleField ==
    /\ ~fout.called
    /\ LET g == ruleIfGen(fin)
           b == buildVarCodes(g, file)
       IN  /\ fout' = Applied(assembleVarCodes(b.codes))
           /\ file' = addMethod(g, b)
    /\ UNCHANGED <<gpc, target, ctx, ip, reported, result>>
    /\ UNCHANGED <<cfgRules, added, resolved, fin, anVars, tagVars>>

Next_Assemble == AssembleField
Spec_Assemble == Init_Assemble /\ [][Next_Assemble]_vars

\* the statements that check a key or an element: the node tn of the tag,
\* for the variable named var of the type typ
nodeChecks(typ, var, tn) ==
    assembleVarCode(buildVarCode(ruleIfGen(fin), NewFile, newVarcode(typ, Ident(var), fin), tn).code)

\* the field is a map, slice or array, or a pointer to one, that has no
\* rules of its own but rules for its keys or elements
keyElemOnly ==
    /\ PtrBase(fin.Type).Kind \in {"map", "slice", "array"}
    /\ fin.RuleTag.Rules = <<>>

\* C26: for a map with key rules only, element rules only, or both, and for
\* a slice or array with element rules, generation succeeds with one
\* for-range loop over the value, whose body holds the checks of the
\* sub-nodes that are present, the key's before the element's; an absent
\* sub-node is skipped; the loop of a pointer field is inside the non-nil
\* guard.
C26_KeyElemLoop ==
    (fout.called /\ keyElemOnly) =>
        LET base == PtrBase(fin.Type)
            tn == fin.RuleTag
            isptr == fin.Type.Kind = "ptr"
            sel == SelectorExpr(recv, Ident(fin.Name))
            top == fout.v[1]
            loop == IF isptr THEN top.Body[1] ELSE top
            keyChecks == IF base.Kind = "map" /\ tn.Key # <<>>
                         THEN nodeChecks(base.Key[1], "k", tn.Key[1]) ELSE <<>>
            elemChecks == IF tn.Elem # <<>>
                          THEN nodeChecks(base.Elem[1], "e", tn.Elem[1]) ELSE <<>>
        IN  /\ Len(fout.v) = 1
            /\ isptr => /\ top.t = "IfStmt"
                        /\ top.Cond = <<BinaryExpr(BinaryNeq, sel, NIL)>>
                        /\ Len(top.Body) = 1
            /\ loop.t = "ForStmt"
            /\ loop.Clause[1].X = (IF isptr THEN PointerIndirectionExpr(sel) ELSE sel)
            /\ loop.Body = keyChecks \o elemChecks

\* the same for the fields whose sub-nodes are all present: a map with key
\* and element rules, a slice or array with element rules
C26_AllPresent ==
    (/\ fout.called
     /\ keyElemOnly
     /\ fin.RuleTag.Elem # <<>>
     /\ PtrBase(fin.Type).Kind = "map" => fin.RuleTag.Key # <<>>) => C26_KeyElemLoop


\* the phrases of the failure checks of a statement, in the order of the
\* statement tree
RECURSIVE checksOf(_)
RECURSIVE checksOfList(_)
checksOf(st) ==
    CASE st.t = "IfStmt" ->
           checksOfList(st.Body) \o (IF st.Else = <<>> THEN <<>> ELSE checksOf(st.Else[1]))
      [] st.t \in {"BlockStmt", "StmtList"} -> checksOfList(st.List)
      [] st.t = "ForStmt" -> checksOfList(st.Body)
      [] st.t = "ReturnStmt" ->
           IF st.Result.t = "CallExpr" /\ st.Result.Fun.t = "QualifiedIdent"
           THEN <<st.Result.Args[1].Value.text>> ELSE <<>>
      [] OTHER -> <<>>
checksOfList(list) ==
    IF list = <<>> THEN <<>> ELSE checksOf(Head(list)) \o checksOfList(Tail(list))

\* the phrase of the failure check of the rule r
phraseOf(r) == errorConfigOf(r.Name, altform(r)).text

\* the rules named name among rules, and the others, in tag order
rulesNamed(rules, name) == SelectSeq(rules, LAMBDA r : r.Name = name)
ordinaryRules(rules) == SelectSeq(rules, LAMBDA r : r.Name \notin {"required", "notnil"})

\* the phrases of the rules of a tag node: required, notnil, the ordinary
\* rules, the rules of the key and of the element
RECURSIVE nodePhrases(_)
nodePhrases(tn) ==
    IF tn = <<>> THEN <<>>
    ELSE LET rs == rulesNamed(tn[1].Rules, "required") \o rulesNamed(tn[1].Rules, "notnil")
                      \o ordinaryRules(tn[1].Rules)
         IN  [i \in 1..Len(rs) |-> phraseOf(rs[i])]
                 \o nodePhrases(tn[1].Key) \o nodePhrases(tn[1].Elem)

\* the phrases of the rules of a field and of its sub-fields
RECURSIVE fieldPhrases(_)
RECURSIVE fieldsPhrases(_)
fieldPhrases(f) == nodePhrases(<<f.RuleTag>>) \o fieldsPhrases(f.Fields)
fieldsPhrases(fs) ==
    IF fs = <<>> THEN <<>> ELSE fieldPhrases(Head(fs)) \o fieldsPhrases(Tail(fs))

\* C29: no rule is dropped: the statement assembled for a field holds one
\* failure check per rule of the field, in order: required, notnil, the
\* ordinary rules, the rules of the key and element nodes and the rules of
\* the sub-fields; also with required and notnil together, with required
\* or notnil on a struct or array, with rules of a map, slice or array
\* next to key and element rules, and with rules of a struct next to those
\* of its fields.
C29_NoRuleDropped ==
    fout.called => checksOfList(fout.v) = fieldPhrases(fin)

\* the rules of a list
rulesOf(rs) == {rs[i] : i \in 1..Len(rs)}

\* the field has neither required together with notnil, nor required or
\* notnil without a comparison, nor rules of its own next to those of its
\* keys, elements or fields, nor a map with an absent sub-node
plainField ==
    LET base == PtrBase(fin.Type)
        rs == fin.RuleTag.Rules
        own == Len(rs) > 0
        sub == fin.RuleTag.Key # <<>> \/ fin.RuleTag.Elem # <<>> \/ fin.Fields # <<>>
    IN  /\ ~(rRequired \in rulesOf(rs) /\ rNotnil \in rulesOf(rs))
        /\ rRequired \in rulesOf(rs) => base.Kind \notin {"struct", "array"}
        /\ rNotnil \in rulesOf(rs) =>
              fin.Type.Kind = "ptr" \/ base.Kind \in {"map", "slice", "interface"}
        /\ ~(own /\ sub)
        /\ base.Kind = "map" /\ sub => fin.RuleTag.Key # <<>> /\ fin.RuleTag.Elem # <<>>

\* for the other fields no rule is dropped
C29_PlainFields == (fout.called /\ plainField) => checksOfList(fout.v) = fieldPhrases(fin)


-----------------------------------------------------------------------------
(* Generate called again on the analysis it was given before: the writes   *)
(* of the generator that involve the objects of the analysis.              *)

\* the number of times Generate is called with the same target
MaxRuns == 2

\* the ArgTypes of the rule function after TypesForArgs: an aliasing
\* `types = f.ArgTypes[1:]` would let the write of the variadic element
\* type through to the rule function
argTypesAliased(rt, args) ==
    IF rt.IsVariadic /\ Len(rt.ArgTypes) > 1
    THEN [rt.ArgTypes EXCEPT ![Len(rt.ArgTypes)] = Last(rt.ArgTypes).Elem[1]]
    ELSE rt.ArgTypes

\* the ArgTypes of the rule function after TypesForArgs: append copies them
\* to the new slice types, which is where the write of the variadic
\* element type goes
argTypesAfter(rt, args) == rt.ArgTypes

\* the argument of the rule after the loop body of newErrorExpr: the zero
\* for an empty argument is assigned to the loop variable, not to the rule
ruleArgAfter(a, numeric) == a

\* the rule type named n after the rules of the fields fs were built
rtAfter(rtm, fs, n) ==
    LET uses == {r \in UNION {rulesOf(fs[i].RuleTag.Rules) : i \in 1..Len(fs)} : r.Name = n}
    IN  IF rtm[n].kind = "Func" /\ uses # {}
        THEN [rtm[n] EXCEPT !.ArgTypes = argTypesAfter(rtm[n], (CHOOSE r \in uses : TRUE).Args)]
        ELSE rtm[n]

\* the field f after its rules were built
fieldAfter(f) ==
    [f EXCEPT !.RuleTag.Rules =
        [i \in 1..Len(@) |->
            [@[i] EXCEPT !.Args =
                [j \in 1..Len(@) |->
                    ruleArgAfter(@[j], IsNumeric(PtrBase(f.Type).Kind))]]]]

\* the target g as Generate leaves it
targetAfter(g) ==
    [g EXCEPT !.info.RuleTypeMap = [n \in DOMAIN @ |-> rtAfter(@, g.vs.Fields, n)],
              !.vs.Fields = [i \in 1..Len(@) |-> fieldAfter(@[i])]]

\* fields whose rules make the generator compute argument types, messages
\* and conversions
RegenFields ==
    { asmField("A", T("string"), asmNode(<<grule("phone", <<strArg("us")>>, "")>>), <<>>),
      asmField("B", T("string"), asmNode(<<grule("phone", <<>>, "")>>), <<>>),
      asmField("C", T("int"), asmNode(<<grule("eq", <<emptyArg, intArg("1")>>, "")>>), <<>>),
      asmField("D", T("int"), asmNode(<<grule("gt", <<fieldArg("Lim")>>, "")>>), <<>>),
      asmField("E", T("string"), asmNode(<<rEmail, grule("re", <<strArg("a")>>, "")>>), <<>>),
      asmField("G", T("string"),
               asmNode(<<grule("prefix", <<strArg("a"), fieldArg("S")>>, "")>>), <<>>),
      asmField("H", PtrT(T("string")), asmNode(<<rRequired, rEmail>>), <<>>),
      asmField("I", SliceT(T("string")),
               asmNode(<<grule("len", <<intArg("1"), emptyArg>>, "")>>), <<>>) }
RegenTargets ==
    {[target1(fs, <<>>, <<>>, <<>>) EXCEPT !.info = ruleIfInfo] :
        fs \in SeqsOf(RegenFields, MaxGenFields)}

Init_Regen ==
    /\ AnalysisInit
    /\ GeneratorInit
    /\ cfgRules = ruleSpecMap
    /\ added = NoAdd
    /\ resolved = NoLookup
    /\ fin \in RegenTargets
    /\ fout = NotApplied
    /\ tag = <<>>
    /\ parsed = NotCalled

\* Generate for the one target t, into a new file
generateFile(t) == addInit(buildValidateMethod(t, NewFile))

\* Generate is called with the target; fout keeps the target as the call
\* left it and the files generated so far
GenerateFirst ==
    /\ ~fout.called
    /\ file' = generateFile(fin)
    /\ fout' = Applied([input |-> targetAfter(fin), files |-> <<generateFile(fin)>>])
    /\ UNCHANGED <<gpc, target, ctx, ip, reported, result>>
    /\ UNCHANGED <<cfgRules, added, resolved, fin, anVars, tagVars>>

\* Generate is called again with the target as the call before left it
GenerateAgain ==
    /\ fout.called
    /\ Len(fout.v.files) < MaxRuns
    /\ file' = generateFile(fout.v.input)
    /\ fout' = Applied([input |-> targetAfter(fout.v.input),
                        files |-> Append(fout.v.files, generateFile(fout.v.input))])
    /\ UNCHANGED <<gpc, target, ctx, ip, reported, result>>
    /\ UNCHANGED <<cfgRules, added, resolved, fin, anVars, tagVars>>

Next_Regen == GenerateFirst \/ GenerateAgain
Spec_Regen == Init_Regen /\ [][Next_Regen]_vars

-----------------------------------------------------------------------------
(* The descent of the analysis into the declared types of the fields:      *)
(* analyzeStructFields calls analyzeType for every field, and analyzeType  *)
(* calls analyzeStructFields for the fields of a struct type.              *)

\* the most fields of the validator struct type
MaxDeclFields == 2
\* the calls of analyzeStructFields that fit on the stack
MaxStack == 4

\* the declared struct types: A is the validator, B another struct type
\* of the package
StructNames == {"A", "B"}
\* the type of a field: a string or a struct type, as it is or as the
\* element of a pointer, slice or map
declType(wrap, ref) == [wrap |-> wrap, ref |-> ref]
\* the field types that B may have: a value of A in B is no valid Go when A
\* holds a value of B, so B holds A and B behind a pointer, slice or map
IndirectTypes ==
    {declType("none", "string")}
        \cup {declType(w, r) : w \in {"ptr", "slice", "map"}, r \in StructNames}
\* the field types that A may have
DeclTypes == IndirectTypes \cup {declType("none", "B")}

\* the i-th field of a struct type is named x, y, ...
declName(i) == <<<<"x">>, <<"y">>, <<"z">>, <<"w">>>>[i]

\* a declared field: its type, and whether its `is` tag is "-"
DeclFieldsOf(types) == [typ : types, skip : BOOLEAN]
DescentInputs ==
    [A : UNION {[1..n -> DeclFieldsOf(DeclTypes)] : n \in 1..MaxDeclFields},
     B : [1..1 -> [typ : IndirectTypes, skip : {FALSE}]]]

Init_Descent ==
    /\ AnalysisInit
    /\ GeneratorInit
    /\ cfgRules = ruleSpecMap
    /\ added = NoAdd
    /\ resolved = NoLookup
    /\ fin \in DescentInputs
    /\ fout = NotApplied
    /\ tag = <<>>
    /\ parsed = NotCalled

\* a call of analyzeStructFields for the struct type decl, about to handle
\* its field idx
frame(decl, idx) == [decl |-> decl, idx |-> idx]

descentStep(st) ==
    /\ fout' = Applied(st)
    /\ UNCHANGED <<cfgRules, added, resolved, fin, anVars, tagVars, genVars>>

\* analyzeValidatorStruct calls analyzeStructFields for the validator
StartAnalysis ==
    /\ ~fout.called
    /\ descentStep([stack |-> <<frame("A", 1)>>, keys |-> emptyMap, status |-> "running"])

\* the state with the top call moved on to its next field
nextField(st) ==
    [st EXCEPT !.stack[Len(st.stack)].idx = @ + 1]

\* one iteration of the loop of analyzeStructFields, up to the return of
\* analyzeType or to the call of analyzeStructFields for the fields of the
\* field's struct type; a call that does not fit on the stack ends the
\* program
analyzeDeclField(st) ==
    LET top == st.stack[Len(st.stack)]
        f == fin[top.decl][top.idx]
        mk == makeFieldKey(st.keys, declName(top.idx))
    IN  IF f.skip THEN nextField(st)
        ELSE IF KeyConflict(mk.keys, mk.key) THEN [st EXCEPT !.status = "error"]
        ELSE LET kept == [nextField(st) EXCEPT !.keys = MapSet(mk.keys, mk.key, 1)]
             IN  IF f.typ.ref \notin StructNames THEN kept
                 ELSE IF Len(st.stack) >= MaxStack THEN [kept EXCEPT !.status = "overflow"]
                 ELSE [kept EXCEPT !.stack = Append(@, frame(f.typ.ref, 1))]

DescendField ==
    /\ fout.called
    /\ fout.v.status = "running"
    /\ LET top == fout.v.stack[Len(fout.v.stack)] IN top.idx <= Len(fin[top.decl])
    /\ descentStep(analyzeDeclField(fout.v))

\* the loop has run out of fields: analyzeStructFields returns, to
\* analyzeType or to analyzeValidatorStruct
ReturnFields ==
    /\ fout.called
    /\ fout.v.status = "running"
    /\ LET top == fout.v.stack[Len(fout.v.stack)] IN top.idx > Len(fin[top.decl])
    /\ descentStep([fout.v EXCEPT
                       !.stack = SubSeq(@, 1, Len(@) - 1),
                       !.status = IF Len(fout.v.stack) = 1 THEN "done" ELSE "running"])

Next_Descent == StartAnalysis \/ DescendField \/ ReturnFields
Spec_Descent == Init_Descent /\ [][Next_Descent]_vars
\* the analysis runs on as long as it can
Spec_DescentFair == Spec_Descent /\ WF_vars(Next_Descent)

\* the analysis has returned, a ValidatorStruct or an error
returned == fout.called /\ fout.v.status \in {"done", "error"}

\* C23: the analysis of a root struct terminates for every input, with a
\* ValidatorStruct or a diagnostic, also when the type of a field refers
\* back to a struct type that is being analysed.
C23_Terminates == <>returned

\* the struct types that the fields of d which are not skipped refer to
declRefs(d) ==
    {fin[d][i].typ.ref : i \in {j \in 1..Len(fin[d]) : ~fin[d][j].skip}} \cap StructNames

\* the descent from the validator comes back to a struct type it is in
refersBack == "A" \in declRefs("A") \/ ("B" \in declRefs("A") /\ declRefs("B") # {})

\* the analysis terminates when no type refers back
C23_AcyclicTerminates == ~refersBack => <>returned

=============================================================================
